---- MODULE Spec2Model ----
(***************************************************************************)
(* SMS gateway: the connectivity monitor's poll loop (network_monitor.py), *)
(* the whitelisted command executor (core/executor.py, core/commands.py,   *)
(* api/routes/commands.py) and the modem driver of the send script         *)
(* (send_reminder_sms.py).  Each component is its own specification over   *)
(* its own variables; the variables of the other components stay at their  *)
(* initial values.                                                         *)
(***************************************************************************)
EXTENDS Integers, Sequences, FiniteSets, TLC

(***************************************************************************)
(* Part 1: network_monitor.py, the poll loop of main().                    *)
(***************************************************************************)

\* Part 1, the monitor (network_monitor.py)
VARIABLES
    mpc,                      \* position of the loop: head, ping, decide, sleep, stopped
    stop_flag,                \* stop_flag["stop"]
    ok,                       \* result of the primary probe of this tick
    failure_streak,
    in_outage,
    last_reminder_monotonic,
    now,                      \* time.monotonic(), in seconds
    tick_probes,              \* history: run_ping calls of this tick, <<target, count>>
    tick_scripts,             \* history: run_script calls of this tick
    tick_spawned,             \* history: scripts started as a child in this tick
    tick_start_outage,        \* history: in_outage when this tick was decided
    tick_elapsed,             \* history: now - last_reminder_monotonic when decided
    outage_reminders,         \* history: reminders sent since the outage was entered
    tick_fault,               \* history: the ping of this tick's primary probe raised
    fault_streak,             \* history: the latest consecutive ticks whose primary probe
                              \* raised, counted up to failure_threshold
    last_script               \* history: the script of the latest run_script call, "" if none

monitor_vars ==
    << mpc, stop_flag, ok, failure_streak, in_outage, last_reminder_monotonic,
       now, tick_probes, tick_scripts, tick_spawned, tick_start_outage,
       tick_elapsed, outage_reminders, tick_fault, fault_streak, last_script >>

\* Part 2, the executor (core/executor.py, core/commands.py, the execute route)
VARIABLES
    commands,                 \* registry._commands: name -> definition
    command_name,             \* per call: the name it was called with
    epc,                      \* per call: idle, queued, woken, waiting, reaping, done
    exec_timeout,             \* per call: the effective timeout, 0 before it is set
    sem_value,                \* limiter._semaphore: free slots
    sem_waiters,              \* limiter._semaphore: the waiting calls, first come first
    current_count,            \* limiter._current_count
    child,                    \* per call: none, running, exited, killed
    result,                   \* per call: the ExecutionResult returned, or NoResult
    rejected,                 \* per call: the error code of a request the route refused
    acquired,                 \* history, per call: slots acquired
    spawns,                   \* history, per call: children spawned
    kills,                    \* history, per call: process.kill() calls
    raised,                   \* history, per call: where an exception was raised inside
                              \* the gate: "" (nowhere), spawn, wait
    released,                 \* history, per call: slots released
    startup,                  \* importing (the registry is being built), ready, failed
    scripts_present,          \* history: the whitelisted scripts found at startup
    timeout_call,             \* the timeout of a request and the effective timeout
                              \* execute_command derives from it, << >> before any
    validate_call             \* a schema, an argument map and what validate_args
                              \* returns for them, << >> before any

executor_vars ==
    << commands, command_name, epc, exec_timeout, sem_value, sem_waiters, current_count, child,
       result, rejected, acquired, spawns, kills, raised, released, startup,
       scripts_present, timeout_call, validate_call >>

\* Part 3, the send script (send_reminder_sms.py)
VARIABLES
    spc,                      \* init, read (inside a read_until), exited
    stage,                    \* the command whose answer is being read
    tries,                    \* the attempt of the AT loop, the poll of the PIN loop
    rcpt,                     \* the index of the recipient being sent to
    line,                     \* the modem's bytes that the script has not read yet
    buf,                      \* read_until: the text accumulated
    polls,                    \* read_until: the polls made
    outcomes,                 \* per recipient attempted: [delivered, ref], the reference
                              \* being reported only with a delivery (line 159)
    exit_status,              \* << >> while running, << n >> once exited
    ser_open,                 \* the serial device is open
    opens,                    \* history: times the device was opened
    recipients,               \* the number of configured recipients
    sim_pin,                  \* a SIM PIN is configured
    sends,                    \* history: AT+CMGS commands written
    pin_asked,                \* history: the SIM status query reported SIM PIN
    answer,                   \* history: what the modem answers to the command being read
    prompt_answer,            \* history: what it answered to the AT+CMGS of this recipient
    send_log,                 \* history, per recipient attempted: how the modem answered
    modem_nominal,            \* history: every answer so far was the nominal one
    io_fault,                 \* history: a serial I/O error was raised
    just_read,                \* history: what the read_until that has just returned
                              \* was for and what its text held, << >> once the next
                              \* read has made a pass of its own
    passed,                   \* history: the stages passed, of AT (the handshake was
                              \* answered OK), PIN (no PIN needed, or entered and the
                              \* SIM ready) and CMGF (text mode was answered OK)
    pin_submits,              \* history: AT+CPIN="..." commands written
    delays                    \* history: sleeps between two recipients

sender_vars ==
    << spc, stage, tries, rcpt, line, buf, polls, outcomes, exit_status, ser_open,
       opens, recipients, sim_pin, sends, pin_asked, answer, prompt_answer,
       send_log, modem_nominal, io_fault, just_read, passed, pin_submits,
       delays >>

\* read_until called on its own (send_reminder_sms.py 38-52)
VARIABLES
    ru_pc,                    \* idle, loop (inside the while), returned
    want_any_of,              \* the tokens looked for
    ru_wire,                  \* the bytes the device has still to deliver
    ru_buf,                   \* buf: the bytes accumulated
    ru_polls,                 \* the passes of the loop made so far
    ru_taken,                 \* history: every byte ser.read has handed out
    ru_ret                    \* << >>, then << [ok, txt] >>: what was returned

read_vars == << ru_pc, want_any_of, ru_wire, ru_buf, ru_polls, ru_taken, ru_ret >>

vars == << monitor_vars, executor_vars, sender_vars, read_vars >>

\* what an action of one part leaves unchanged
NotMonitor == << executor_vars, sender_vars, read_vars >>
NotExecutor == << monitor_vars, sender_vars, read_vars >>
NotSender == << monitor_vars, executor_vars, read_vars >>
NotRead == << monitor_vars, executor_vars, sender_vars >>
\* what a call of the executor leaves unchanged besides
NotCall == << NotExecutor, startup, scripts_present, timeout_call, validate_call >>

\* DEFAULTS of network_monitor.py
check_interval_seconds == 30
ping_count == 4
failure_threshold == 4
reminder_interval_seconds == 300
router_ip == "router_ip"
internet_ip == "internet_ip"
alert_power_script == "send_alert_power_sms.py"
alert_network_script == "send_alert_network_sms.py"
reminder_script == "send_reminder_sms.py"
clear_script == "send_clear_sms.py"

\* the time a script may take: subprocess.run(..., timeout=120)
script_timeout == 120

\* the loop is followed until the clock passes MaxNow
MaxNow == 780
\* the horizon of the runs in which the loop's termination is followed
SignalHorizon == 240
\* a probe that is answered returns at once; an unanswered one takes SlowPing seconds
SlowPing == 10

AlertScripts == {alert_power_script, alert_network_script}

PingOutcomes == {"reply", "noreply", "fault"}

\* a prober that takes a ping it could not run for an answer
run_ping_fault_ok(outcome) == outcome # "noreply"

\* run_ping: True iff ping exits 0; an exception of the invocation gives False
run_ping(outcome) == outcome = "reply"

PingSeconds(outcome) == IF outcome = "reply" THEN 0 ELSE SlowPing

\* run_script: nothing is started when the script file is missing; the child's
\* result is only logged.  exists, seconds: the file system and the child.
run_script(script_name, exists, st) ==
    [ scripts |-> Append(st.scripts, script_name),
      spawned |-> IF exists THEN Append(st.spawned, script_name) ELSE st.spawned,
      now     |-> IF exists THEN st.now + st.seconds ELSE st.now ]

MonitorInit ==
    /\ mpc = "head"
    /\ stop_flag = FALSE
    /\ ok = TRUE
    /\ failure_streak = 0
    /\ in_outage = FALSE
    /\ last_reminder_monotonic = 0
    /\ now = 0
    /\ tick_probes = << >>
    /\ tick_scripts = << >>
    /\ tick_spawned = << >>
    /\ tick_start_outage = FALSE
    /\ tick_elapsed = 0
    /\ outage_reminders = 0
    /\ tick_fault = FALSE
    /\ fault_streak = 0
    /\ last_script = ""

\* handle_sig: only sets the flag
handle_sig ==
    /\ UNCHANGED NotMonitor
    /\ mpc # "stopped"
    /\ stop_flag' = TRUE
    /\ UNCHANGED << mpc, ok, failure_streak, in_outage, last_reminder_monotonic,
                    now, tick_probes, tick_scripts, tick_spawned,
                    tick_start_outage, tick_elapsed, outage_reminders, tick_fault,
                    fault_streak, last_script >>

\* a loop that does not look at the flag
LoopContinuesRegardless(flag) == TRUE

\* the loop's condition: not stop_flag["stop"]
LoopContinues(flag) == ~flag

\* while not stop_flag["stop"]: a new tick is followed only up to the horizon
LoopHead(horizon) ==
    /\ UNCHANGED NotMonitor
    /\ mpc = "head"
    /\ stop_flag \/ now <= horizon
    /\ mpc' = IF LoopContinues(stop_flag) THEN "ping" ELSE "stopped"
    /\ tick_probes' = << >>
    /\ tick_scripts' = << >>
    /\ tick_spawned' = << >>
    /\ tick_start_outage' = in_outage
    /\ tick_elapsed' = 0
    /\ tick_fault' = FALSE
    /\ UNCHANGED << stop_flag, ok, failure_streak, in_outage,
                    last_reminder_monotonic, now, outage_reminders, fault_streak,
                    last_script >>

\* ok = run_ping(internet_ip, ping_count)
PrimaryPing ==
    /\ UNCHANGED NotMonitor
    /\ mpc = "ping"
    /\ \E outcome \in PingOutcomes :
          /\ ok' = run_ping(outcome)
          /\ now' = now + PingSeconds(outcome)
          /\ tick_probes' = Append(tick_probes,
                              << internet_ip, ping_count, run_ping(outcome) >>)
          /\ tick_fault' = (outcome = "fault")
          /\ fault_streak' = IF outcome # "fault" THEN 0
                             ELSE IF fault_streak < failure_threshold THEN fault_streak + 1
                             ELSE fault_streak
    /\ mpc' = "decide"
    /\ UNCHANGED << stop_flag, failure_streak, in_outage, last_reminder_monotonic,
                    tick_scripts, tick_spawned, tick_start_outage, tick_elapsed,
                    outage_reminders, last_script >>

\* the script an outage is announced with, from the router's answer
AlertForSwapped(router_ok) ==
    IF router_ok THEN alert_power_script ELSE alert_network_script

AlertFor(router_ok) == IF router_ok THEN alert_network_script ELSE alert_power_script

\* the streak that enters an outage
StreakTripsLate(streak) == streak > failure_threshold

StreakTrips(streak) == streak >= failure_threshold

\* a reminder on every failed tick of an outage
ReminderDueAtOnce(elapsed) == elapsed >= 0

\* the age of the last reminder that calls for the next one
ReminderDue(elapsed) == elapsed >= reminder_interval_seconds

\* the state of the loop that a tick's decision reads and writes
LoopState ==
    [ failure_streak |-> failure_streak, in_outage |-> in_outage,
      last_reminder_monotonic |-> last_reminder_monotonic, now |-> now,
      probes |-> tick_probes, scripts |-> tick_scripts, spawned |-> tick_spawned,
      reminders |-> outage_reminders ]

\* a dispatch that runs every script twice
RunScriptTwice(s, script_name, exists, seconds) ==
    LET st == [ scripts |-> s.scripts, spawned |-> s.spawned,
                now |-> s.now, seconds |-> seconds ]
        r1 == run_script(script_name, exists, st)
        r == run_script(script_name, exists,
                        [ scripts |-> r1.scripts, spawned |-> r1.spawned,
                          now |-> r1.now, seconds |-> seconds ]) IN
    [s EXCEPT !.scripts = r.scripts, !.spawned = r.spawned, !.now = r.now]

\* run_script on the loop's state: exists, seconds are the file system's and the
\* child's part
RunScript(s, script_name, exists, seconds) ==
    LET r == run_script(script_name, exists,
                        [ scripts |-> s.scripts, spawned |-> s.spawned,
                          now |-> s.now, seconds |-> seconds ]) IN
    [s EXCEPT !.scripts = r.scripts, !.spawned = r.spawned, !.now = r.now]

\* a recovery that needs the streak to be cleared first: leaves the outage on
DecideReachableSticky(s, exists, seconds) ==
    [s EXCEPT !.failure_streak = 0]

\* if ok: (lines 125-134)
DecideReachable(s, exists, seconds) ==
    IF s.in_outage THEN
        RunScript([s EXCEPT !.in_outage = FALSE, !.failure_streak = 0],
                  clear_script, exists, seconds)
    ELSE
        [s EXCEPT !.failure_streak = 0]

\* a loop that gives an outage up once it has sent a reminder for it
DecideUnreachableGivesUp(s, outcome, exists, seconds) ==
    LET s1 == [s EXCEPT !.failure_streak = s.failure_streak + 1] IN
    IF ~s1.in_outage /\ StreakTrips(s1.failure_streak) THEN
        LET router_ok == run_ping(outcome)
            s2 == [s1 EXCEPT !.probes = Append(s1.probes, << router_ip, 1, router_ok >>),
                             !.now = s1.now + PingSeconds(outcome)]
            s3 == RunScript(s2, AlertFor(router_ok), exists, seconds) IN
        [s3 EXCEPT !.in_outage = TRUE, !.last_reminder_monotonic = s3.now,
                   !.reminders = 0]
    ELSE IF s1.in_outage THEN
        IF ReminderDue(s1.now - s1.last_reminder_monotonic) THEN
            LET s2 == RunScript(s1, reminder_script, exists, seconds) IN
            [s2 EXCEPT !.last_reminder_monotonic = s2.now,
                       !.reminders = s1.reminders + 1, !.in_outage = FALSE]
        ELSE s1
    ELSE s1

\* else: (lines 136-160); outcome is the answer of the router, when it is asked
DecideUnreachable(s, outcome, exists, seconds) ==
    LET s1 == [s EXCEPT !.failure_streak = s.failure_streak + 1] IN
    IF ~s1.in_outage /\ StreakTrips(s1.failure_streak) THEN
        LET router_ok == run_ping(outcome)
            s2 == [s1 EXCEPT !.probes = Append(s1.probes, << router_ip, 1, router_ok >>),
                             !.now = s1.now + PingSeconds(outcome)]
            s3 == RunScript(s2, AlertFor(router_ok), exists, seconds) IN
        [s3 EXCEPT !.in_outage = TRUE, !.last_reminder_monotonic = s3.now,
                   !.reminders = 0]
    ELSE IF s1.in_outage THEN
        IF ReminderDue(s1.now - s1.last_reminder_monotonic) THEN
            LET s2 == RunScript(s1, reminder_script, exists, seconds) IN
            [s2 EXCEPT !.last_reminder_monotonic = s2.now,
                       !.reminders = s1.reminders + 1]
        ELSE s1
    ELSE s1

\* the body of the loop after the primary probe
Decide ==
    /\ UNCHANGED NotMonitor
    /\ mpc = "decide"
    /\ mpc' = "sleep"
    /\ tick_start_outage' = in_outage
    /\ tick_elapsed' = now - last_reminder_monotonic
    /\ UNCHANGED << stop_flag, ok, tick_fault, fault_streak >>
    /\ \E outcome \in PingOutcomes, exists \in BOOLEAN, seconds \in {0, script_timeout} :
        LET s == IF ok THEN DecideReachable(LoopState, exists, seconds)
                 ELSE DecideUnreachable(LoopState, outcome, exists, seconds) IN
        /\ failure_streak' = s.failure_streak
        /\ in_outage' = s.in_outage
        /\ last_reminder_monotonic' = s.last_reminder_monotonic
        /\ now' = s.now
        /\ tick_probes' = s.probes
        /\ tick_scripts' = s.scripts
        /\ tick_spawned' = s.spawned
        /\ outage_reminders' = s.reminders
        /\ last_script' = IF s.scripts = << >> THEN last_script
                          ELSE s.scripts[Len(s.scripts)]

\* time.sleep(check_interval)
Sleep ==
    /\ UNCHANGED NotMonitor
    /\ mpc = "sleep"
    /\ now' = now + check_interval_seconds
    /\ mpc' = "head"
    /\ UNCHANGED << stop_flag, ok, failure_streak, in_outage,
                    last_reminder_monotonic, tick_probes, tick_scripts,
                    tick_spawned, tick_start_outage, tick_elapsed,
                    outage_reminders, tick_fault, fault_streak, last_script >>

MonitorNext ==
    \/ handle_sig
    \/ LoopHead(MaxNow)
    \/ PrimaryPing
    \/ Decide
    \/ Sleep

\* the same loop, followed up to SignalHorizon, for its termination
SignalNext ==
    \/ handle_sig
    \/ LoopHead(SignalHorizon)
    \/ PrimaryPing
    \/ Decide
    \/ Sleep

(***************************************************************************)
(* Part 2: core/commands.py (the registry), core/executor.py (the limiter  *)
(* and SafeExecutor.execute_command) and the execute route.  The calls are *)
(* coroutines of one event loop: an action is the code a call runs between *)
(* two suspensions.                                                        *)
(***************************************************************************)

\* core/config.py
MAX_CONCURRENT_EXECUTIONS == 3
DEFAULT_TIMEOUT == 30
MAX_TIMEOUT == 120

\* the calls followed: as many as the gate has slots, and ExtraCalls more
ExtraCalls == 1
Calls == 1..(MAX_CONCURRENT_EXECUTIONS + ExtraCalls)

\* a dict without entries
EmptyDict == [ key \in {} |-> "" ]

\* CommandDefinition(name, timeout_default, args_schema) of the whitelist: a
\* schema maps a key to the type expected of its value
CommandDefinition(name) ==
    [ name |-> name, timeout_default |-> 60, args_schema |-> EmptyDict ]

WhitelistNames ==
    { "send_alert_power", "send_alert_network", "send_reminder", "send_clear" }

\* CommandRegistry._initialize_commands, every script being in place
InitialCommands == [ n \in WhitelistNames |-> CommandDefinition(n) ]

\* the order in which _initialize_commands goes through the whitelist
WhitelistOrder ==
    << "send_alert_power", "send_alert_network", "send_reminder", "send_clear" >>

\* a start that registers the commands whose scripts it finds and goes on
initialize_commands_lenient(present) ==
    [ raised |-> FALSE,
      commands |-> [ n \in WhitelistNames \cap present |-> CommandDefinition(n) ] ]

\* CommandRegistry._initialize_commands (lines 88-92): the commands are
\* registered in order, and the first script that is missing raises
\* FileNotFoundError
initialize_commands(present) ==
    LET missing == { i \in 1..Len(WhitelistOrder) : WhitelistOrder[i] \notin present }
        stop == IF missing = {} THEN Len(WhitelistOrder) + 1
                ELSE CHOOSE i \in missing : \A j \in missing : i <= j
        registered == { WhitelistOrder[i] : i \in 1..(stop - 1) } IN
    [ raised |-> missing # {},
      commands |-> [ n \in registered |-> CommandDefinition(n) ] ]

\* the requests followed: a name, an argument map (the set of its keys), a
\* timeout (<< >> is None: the command's default) and a mode.  How long a
\* deadline is plays no part here: a pending deadline may pass at any time.
RequestNames == { "send_reminder", "reboot" }
RequestArgs == { EmptyDict, [ key \in { "message" } |-> "str" ] }
None == << >>
RequestTimeouts == { None }
RequestModes == { "sync", "async" }

\* an error message is the sequence of its words; << >> is None
NoResult == [ success |-> FALSE, exit_code |-> 0, error_message |-> << "(none)" >> ]

\* registry.is_valid_command
is_valid_command(name) == name \in DOMAIN commands

\* a lookup that makes up a definition for a name the registry does not hold
get_command_or_default(name) ==
    IF name \in DOMAIN commands THEN << commands[name] >>
    ELSE << CommandDefinition(name) >>

\* registry.get_command: the definition, or None
get_command(name) ==
    IF name \in DOMAIN commands THEN << commands[name] >> ELSE None

\* isinstance(value, expected_type), a value being known by its type: a bool
\* is an int
isinstance(value, expected_type) ==
    value = expected_type \/ (value = "bool" /\ expected_type = "int")

\* CommandDefinition.validate_args: with an empty schema, only empty arguments;
\* otherwise the declared keys that are given must have the expected type
validate_args(cmd_def, args) ==
    IF DOMAIN cmd_def.args_schema = {} THEN Cardinality(DOMAIN args) = 0
    ELSE \A key \in DOMAIN cmd_def.args_schema :
            key \in DOMAIN args => isinstance(args[key], cmd_def.args_schema[key])

\* registry.validate_command_args -> (is_valid, error_message)
validate_command_args(name, args) ==
    LET cmd == get_command(name) IN
    IF cmd = None THEN << FALSE, << "Command", name, "not", "found" >> >>
    ELSE IF ~validate_args(cmd[1], args)
         THEN << FALSE, << "Invalid", "arguments", "for", "command", name >> >>
         ELSE << TRUE, None >>

\* SafeExecutor._validate_timeout
validate_timeout(timeout) ==
    IF timeout < 1 THEN DEFAULT_TIMEOUT
    ELSE IF timeout > MAX_TIMEOUT THEN MAX_TIMEOUT
    ELSE timeout

\* the effective timeout of a request (lines 135-137)
EffectiveTimeout(cmd_def, timeout) ==
    validate_timeout(IF timeout # None THEN timeout[1] ELSE cmd_def.timeout_default)

\* the ExecutionResults execute_command builds
NotFoundResult(name) ==
    [ success |-> FALSE, exit_code |-> -1,
      error_message |-> << "Command", name, "not", "found", "in", "registry" >> ]
InvalidArgsResult(msg) ==
    [ success |-> FALSE, exit_code |-> -1, error_message |-> msg ]
TimeoutResult ==
    [ success |-> FALSE, exit_code |-> -1,
      error_message |-> << "Command", "exceeded", "timeout", "of", "N", "s" >> ]
CompletedResult(exit_code) ==
    [ success |-> exit_code = 0, exit_code |-> exit_code,
      error_message |-> IF exit_code = 0 THEN None
                        ELSE << "Command", "failed", "with", "exit", "code", "N" >> ]
FaultResult(e) ==
    [ success |-> FALSE, exit_code |-> -1,
      error_message |-> << "Execution", "error:" >> \o e ]

\* str(e) of the exceptions followed, in pieces: the text is the operating
\* system's and names the file it is about, here the interpreter of a virtual
\* environment under /opt/timeout/
ENOMEM == << "[Errno", "12]", "Cannot", "allocate", "memory" >>
ENOENT ==
    << "[Errno", "2]", "No", "such", "file", "or", "directory:", "/opt/", "timeout",
       "/bin/python" >>
FaultTexts == { ENOMEM, ENOENT }

\* str.lower on the words that occur
Lower(w) ==
    CASE w = "Command" -> "command"
      [] w = "Invalid" -> "invalid"
      [] w = "Execution" -> "execution"
      [] w = "[Errno" -> "[errno"
      [] w = "Cannot" -> "cannot"
      [] w = "No" -> "no"
      [] OTHER -> w

\* "timeout" in msg.lower(), "not found" in msg.lower()
MentionsTimeout(msg) == \E i \in 1..Len(msg) : Lower(msg[i]) = "timeout"
MentionsNotFound(msg) ==
    \E i \in 1..(Len(msg) - 1) : Lower(msg[i]) = "not" /\ Lower(msg[i + 1]) = "found"

\* the route's error code for a result that carries an error message (126-137)
RouteErrorCode(res) ==
    IF res.error_message = None THEN "completed"
    ELSE IF MentionsTimeout(res.error_message) THEN "EXECUTION_TIMEOUT"
    ELSE IF MentionsNotFound(res.error_message) THEN "INVALID_COMMAND"
    ELSE "EXECUTION_FAILED"

ExitCodes == { 0, 1 }

\* before core.commands is imported: self._commands = {} (line 36)
ExecutorInit ==
    /\ commands = << >>
    /\ startup = "importing"
    /\ scripts_present = {}
    /\ timeout_call = << >>
    /\ validate_call = << >>
    /\ command_name = [ c \in Calls |-> "" ]
    /\ epc = [ c \in Calls |-> "idle" ]
    /\ exec_timeout = [ c \in Calls |-> 0 ]
    /\ sem_value = MAX_CONCURRENT_EXECUTIONS
    /\ sem_waiters = << >>
    /\ current_count = 0
    /\ child = [ c \in Calls |-> "none" ]
    /\ result = [ c \in Calls |-> NoResult ]
    /\ rejected = [ c \in Calls |-> "" ]
    /\ acquired = [ c \in Calls |-> 0 ]
    /\ spawns = [ c \in Calls |-> 0 ]
    /\ kills = [ c \in Calls |-> 0 ]
    /\ raised = [ c \in Calls |-> "" ]
    /\ released = [ c \in Calls |-> 0 ]

\* asyncio.Semaphore.locked
SemLocked == sem_value = 0 \/ sem_waiters # << >>

\* the first waiter that has not been woken yet, 0 if there is none
NextWaiter(pcs, waiters) ==
    LET idx == { i \in 1..Len(waiters) : pcs[waiters[i]] = "queued" } IN
    IF idx = {} THEN 0
    ELSE waiters[CHOOSE i \in idx : \A j \in idx : i <= j]

\* a release that wakes nobody
SemReleaseNoWake(st) == [st EXCEPT !.sem_value = st.sem_value + 1]

\* asyncio.Semaphore.release as the limiter's __aexit__ uses it: the slot goes
\* to the first waiter, or back to the semaphore
SemRelease(st) ==
    LET w == NextWaiter(st.epc, st.sem_waiters) IN
    IF w = 0 THEN [st EXCEPT !.sem_value = st.sem_value + 1]
    ELSE [st EXCEPT !.epc[w] = "woken"]

\* an __aexit__ that keeps the slot
LimiterExitLeaks(st) ==
    [st EXCEPT !.current_count = st.current_count - 1]

\* ConcurrencyLimiter.__aexit__
LimiterExit(st) ==
    LET r == SemRelease(st) IN
    [r EXCEPT !.current_count = r.current_count - 1]

\* the limiter's and the calls' state that leaving the gate changes
GateState ==
    [ epc |-> epc, sem_value |-> sem_value, sem_waiters |-> sem_waiters,
      current_count |-> current_count ]

SetGate(st) ==
    /\ epc' = st.epc
    /\ sem_value' = st.sem_value
    /\ sem_waiters' = st.sem_waiters
    /\ current_count' = st.current_count

\* the call returns res and, holding a slot, leaves the gate
ReturnFromGate(c, res, st) ==
    /\ result' = [result EXCEPT ![c] = res]
    /\ released' = [released EXCEPT ![c] = released[c] + 1]
    /\ SetGate(LimiterExit([st EXCEPT !.epc[c] = "done"]))

\* inside the gate (lines 149-161): the child is spawned, or the spawn raises
InsideGate(c, st, spawn_ok, texts) ==
    /\ acquired' = [acquired EXCEPT ![c] = acquired[c] + 1]
    /\ IF spawn_ok THEN
          /\ child' = [child EXCEPT ![c] = "running"]
          /\ spawns' = [spawns EXCEPT ![c] = spawns[c] + 1]
          /\ SetGate([st EXCEPT !.epc[c] = "waiting",
                                !.current_count = st.current_count + 1])
          /\ UNCHANGED << result, raised, released >>
       ELSE
          /\ \E e \in texts :
                ReturnFromGate(c, FaultResult(e),
                               [st EXCEPT !.current_count = st.current_count + 1])
          /\ raised' = [raised EXCEPT ![c] = "spawn"]
          /\ UNCHANGED << child, spawns >>

\* the history of a call that is unchanged while it is not inside the gate
NotInside == UNCHANGED << child, acquired, spawns, raised, released >>

\* ConcurrencyLimiter.__aenter__ up to the first suspension, then the body
EnterGate(c, spawn_ok, texts) ==
    IF SemLocked THEN
        /\ epc' = [epc EXCEPT ![c] = "queued"]
        /\ sem_waiters' = Append(sem_waiters, c)
        /\ UNCHANGED << sem_value, current_count, result >>
        /\ NotInside
    ELSE
        InsideGate(c, [GateState EXCEPT !.sem_value = sem_value - 1], spawn_ok, texts)

\* SafeExecutor.execute_command from its call to its first suspension
ExecuteCommand(c, name, args, timeout, spawn_ok, texts) ==
    LET cmd_def == get_command(name)
        valid == validate_command_args(name, args) IN
    /\ UNCHANGED << rejected, kills >>
    /\ IF cmd_def = None THEN
          /\ epc' = [epc EXCEPT ![c] = "done"]
          /\ result' = [result EXCEPT ![c] = NotFoundResult(name)]
          /\ UNCHANGED << exec_timeout, sem_value, sem_waiters, current_count >>
          /\ NotInside
       ELSE IF ~valid[1] THEN
          /\ epc' = [epc EXCEPT ![c] = "done"]
          /\ result' = [result EXCEPT ![c] = InvalidArgsResult(valid[2])]
          /\ UNCHANGED << exec_timeout, sem_value, sem_waiters, current_count >>
          /\ NotInside
       ELSE
          /\ exec_timeout' = [exec_timeout EXCEPT ![c] = EffectiveTimeout(cmd_def[1], timeout)]
          /\ EnterGate(c, spawn_ok, texts)

\* the execute route (api/routes/commands.py): refuses an unknown command and a
\* mode other than sync, and calls the executor otherwise
RouteExecute(c, name, args, timeout, mode, spawn_ok, texts) ==
    IF ~is_valid_command(name) \/ mode # "sync" THEN
        /\ rejected' = [rejected EXCEPT ![c] =
                          IF ~is_valid_command(name) THEN "INVALID_COMMAND"
                          ELSE "INVALID_MODE"]
        /\ epc' = [epc EXCEPT ![c] = "done"]
        /\ UNCHANGED << exec_timeout, sem_value, sem_waiters, current_count,
                        result, kills >>
        /\ NotInside
    ELSE
        ExecuteCommand(c, name, args, timeout, spawn_ok, texts)

\* registry = CommandRegistry() (line 121), at the import of core.commands: an
\* exception ends the start of the service, and nothing can be called
Startup(file_systems) ==
    /\ UNCHANGED NotExecutor
    /\ startup = "importing"
    /\ \E present \in file_systems :
          LET r == initialize_commands(present) IN
          /\ scripts_present' = present
          /\ commands' = r.commands
          /\ startup' = IF r.raised THEN "failed" ELSE "ready"
    /\ UNCHANGED << command_name, epc, exec_timeout, sem_value, sem_waiters,
                    current_count, child, result, rejected, acquired, spawns, kills,
                    raised, released, timeout_call, validate_call >>

\* the timeouts a request may carry: None, and the integers from below 1 to
\* above MAX_TIMEOUT
TimeoutMargin == 2
RequestedTimeouts ==
    { None } \cup { << t >> : t \in (0 - TimeoutMargin)..(MAX_TIMEOUT + TimeoutMargin) }

\* execute_command, lines 134-137 alone: the effective timeout of a request
\* for a registered command
TimeoutCall ==
    /\ UNCHANGED NotExecutor
    /\ startup = "ready"
    /\ \E name \in WhitelistNames, timeout \in RequestedTimeouts :
          timeout_call' =
              << [ command_name |-> name, timeout |-> timeout,
                   exec_timeout |-> EffectiveTimeout(get_command(name)[1], timeout) ] >>
    /\ UNCHANGED << commands, command_name, epc, exec_timeout, sem_value, sem_waiters,
                    current_count, child, result, rejected, acquired, spawns, kills,
                    raised, released, startup, scripts_present, validate_call >>

\* the schemas followed: the empty one of the four whitelisted commands, and
\* the one that commands.py gives as the pattern of a command with arguments
\* (lines 74-83)
ArgsSchemas ==
    { EmptyDict,
      [ key \in { "message", "count" } |-> IF key = "message" THEN "str" ELSE "int" ] }

\* the argument maps followed: any of three keys, each with a value of one of
\* three types
ArgKeys == { "message", "count", "verbose" }
ValueTypes == { "str", "int", "bool" }
ArgMaps == UNION { [ S -> ValueTypes ] : S \in SUBSET ArgKeys }

\* CommandDefinition.validate_args alone, of a definition with one of the
\* schemas
ValidateCall ==
    /\ UNCHANGED NotExecutor
    /\ \E schema \in ArgsSchemas, args \in ArgMaps :
          validate_call' =
              << [ args_schema |-> schema, args |-> args,
                   is_valid |-> validate_args(
                                   [ name |-> "custom_command", timeout_default |-> 30,
                                     args_schema |-> schema ], args) ] >>
    /\ UNCHANGED << commands, command_name, epc, exec_timeout, sem_value, sem_waiters,
                    current_count, child, result, rejected, acquired, spawns, kills,
                    raised, released, startup, scripts_present, timeout_call >>

\* call c is made: through the route, or of the executor itself.  The calls are
\* numbered in the order they are made.
Execute(c, names, argsets, timeouts, modes, spawn_oks, texts) ==
    /\ UNCHANGED NotCall
    /\ startup = "ready"
    /\ epc[c] = "idle"
    /\ IF c = 1 THEN TRUE ELSE epc[c - 1] # "idle"
    /\ UNCHANGED commands
    /\ \E name \in names, args \in argsets, timeout \in timeouts,
          spawn_ok \in spawn_oks :
          /\ command_name' = [command_name EXCEPT ![c] = name]
          /\ \/ ExecuteCommand(c, name, args, timeout, spawn_ok, texts)
             \/ \E mode \in modes :
                   RouteExecute(c, name, args, timeout, mode, spawn_ok, texts)

\* a woken waiter resumes in acquire(): it leaves the queue, passes a free slot
\* on to the next waiter, and enters the gate
Resume(c, spawn_oks, texts) ==
    /\ UNCHANGED NotCall
    /\ epc[c] = "woken"
    /\ UNCHANGED << commands, command_name, exec_timeout, rejected, kills >>
    /\ \E spawn_ok \in spawn_oks :
        LET left == SelectSeq(sem_waiters, LAMBDA w : w # c)
            st == [GateState EXCEPT !.sem_waiters = left]
            w == NextWaiter(st.epc, left)
            st2 == IF st.sem_value > 0 /\ w # 0
                   THEN [st EXCEPT !.sem_value = st.sem_value - 1, !.epc[w] = "woken"]
                   ELSE st IN
        InsideGate(c, st2, spawn_ok, texts)

\* the child of call c exits on its own
ChildExit(c) ==
    /\ UNCHANGED NotCall
    /\ child[c] = "running"
    /\ child' = [child EXCEPT ![c] = "exited"]
    /\ UNCHANGED << commands, command_name, epc, exec_timeout, sem_value,
                    sem_waiters, current_count, result, rejected, acquired,
                    spawns, kills, raised, released >>

\* process.communicate() returns within the timeout (lines 165-223)
Complete(c) ==
    /\ UNCHANGED NotCall
    /\ epc[c] = "waiting"
    /\ child[c] = "exited"
    /\ \E exit_code \in ExitCodes :
          ReturnFromGate(c, CompletedResult(exit_code), GateState)
    /\ UNCHANGED << commands, command_name, exec_timeout, child, rejected,
                    acquired, spawns, kills, raised >>

\* a timeout handler that forgets to kill
KillChildNoop(status) == status

\* process.kill(): a running child is killed; for one that is gone the call
\* raises or does nothing
KillChild(status) == IF status = "running" THEN "killed" ELSE status

\* a timeout handler that kills every child of the executor
TimeoutKillsAll(c) ==
    /\ UNCHANGED NotCall
    /\ epc[c] = "waiting"
    /\ kills' = [kills EXCEPT ![c] = kills[c] + 1]
    /\ child' = [ d \in Calls |-> KillChild(child[d]) ]
    /\ IF child[c] = "exited"
       THEN ReturnFromGate(c, TimeoutResult, GateState)
       ELSE /\ epc' = [epc EXCEPT ![c] = "reaping"]
            /\ UNCHANGED << sem_value, sem_waiters, current_count, result, released >>
    /\ UNCHANGED << commands, command_name, exec_timeout, rejected, acquired,
                    spawns, raised >>

\* asyncio.TimeoutError (lines 171-176): the deadline passes before
\* communicate() has returned; the child is killed and awaited
Timeout(c) ==
    /\ UNCHANGED NotCall
    /\ epc[c] = "waiting"
    /\ kills' = [kills EXCEPT ![c] = kills[c] + 1]
    /\ child' = [child EXCEPT ![c] = KillChild(child[c])]
    /\ IF child[c] = "exited"
       THEN ReturnFromGate(c, TimeoutResult, GateState)
       ELSE /\ epc' = [epc EXCEPT ![c] = "reaping"]
            /\ UNCHANGED << sem_value, sem_waiters, current_count, result, released >>
    /\ UNCHANGED << commands, command_name, exec_timeout, rejected, acquired,
                    spawns, raised >>

\* a handler that lets the exception go on to the caller: the limiter's
\* __aexit__ still runs, and the call ends without a result
WaitFaultPropagates(c, texts) ==
    /\ UNCHANGED NotCall
    /\ epc[c] = "waiting"
    /\ child[c] \in { "running", "exited" }
    /\ raised' = [raised EXCEPT ![c] = "wait"]
    /\ released' = [released EXCEPT ![c] = released[c] + 1]
    /\ SetGate(LimiterExit([GateState EXCEPT !.epc[c] = "raised"]))
    /\ UNCHANGED << commands, command_name, exec_timeout, child, result, rejected,
                    acquired, spawns, kills >>

\* the wait for the child raises something other than the timeout, e.g. an
\* OSError on reading the child's pipes (lines 165-168, caught on 225-239):
\* the fault result is returned; the child is neither killed nor awaited
WaitFault(c, texts) ==
    /\ UNCHANGED NotCall
    /\ epc[c] = "waiting"
    /\ child[c] \in { "running", "exited" }
    /\ raised' = [raised EXCEPT ![c] = "wait"]
    /\ \E e \in texts : ReturnFromGate(c, FaultResult(e), GateState)
    /\ UNCHANGED << commands, command_name, exec_timeout, child, rejected,
                    acquired, spawns, kills >>

\* process.wait() returns: the timeout result is built and returned (177-192)
Reaped(c) ==
    /\ UNCHANGED NotCall
    /\ epc[c] = "reaping"
    /\ child[c] \in { "killed", "exited" }
    /\ child' = [child EXCEPT ![c] = IF child[c] = "killed" THEN "reaped" ELSE child[c]]
    /\ ReturnFromGate(c, TimeoutResult, GateState)
    /\ UNCHANGED << commands, command_name, exec_timeout, rejected, acquired,
                    spawns, kills, raised >>

ExecutorNext ==
    \/ Startup(SUBSET WhitelistNames)
    \/ \E c \in Calls : Execute(c, RequestNames, RequestArgs, RequestTimeouts,
                               RequestModes, BOOLEAN, { ENOMEM })
    \/ \E c \in Calls : Resume(c, BOOLEAN, { ENOMEM })
    \/ \E c \in Calls : ChildExit(c)
    \/ \E c \in Calls : Complete(c)
    \/ \E c \in Calls : Timeout(c)
    \/ \E c \in Calls : Reaped(c)
    \/ \E c \in Calls : WaitFault(c, { ENOMEM })

\* the same executor under load alone: every request is valid, every spawn
\* succeeds and no wait raises
LoadNext ==
    \/ Startup({ WhitelistNames })
    \/ \E c \in Calls : Execute(c, { "send_reminder" }, { EmptyDict }, { None }, { "sync" },
                               { TRUE }, {})
    \/ \E c \in Calls : Resume(c, { TRUE }, {})
    \/ \E c \in Calls : ChildExit(c)
    \/ \E c \in Calls : Complete(c)
    \/ \E c \in Calls : Timeout(c)
    \/ \E c \in Calls : Reaped(c)

\* the effective timeouts alone
TimeoutNext ==
    \/ Startup({ WhitelistNames })
    \/ TimeoutCall

\* the validation of arguments alone
ValidateNext == ValidateCall

\* the outcomes of a call and their classification by the route: a few calls,
\* below the limit of the gate, with every text an exception may carry
ClassifyCalls == 2
ClassifyNext ==
    \/ Startup({ WhitelistNames })
    \/ \E c \in 1..ClassifyCalls :
          Execute(c, RequestNames, { EmptyDict }, { None }, { "sync" }, BOOLEAN, FaultTexts)
    \/ \E c \in 1..ClassifyCalls : ChildExit(c)
    \/ \E c \in 1..ClassifyCalls : Complete(c)
    \/ \E c \in 1..ClassifyCalls : Timeout(c)
    \/ \E c \in 1..ClassifyCalls : Reaped(c)
    \/ \E c \in 1..ClassifyCalls : WaitFault(c, FaultTexts)

\* the event loop runs every coroutine that can continue, and a deadline that is
\* pending passes; a child need not ever exit, and a call need not ever be made
LoadFairness ==
    \A c \in Calls :
        /\ WF_vars(Resume(c, { TRUE }, {}))
        /\ WF_vars(Complete(c))
        /\ WF_vars(Timeout(c))
        /\ WF_vars(Reaped(c))

(***************************************************************************)
(* Part 3: send_reminder_sms.py.  Text is a sequence of characters.  The   *)
(* script is followed from one read_until poll to the next: an action is   *)
(* one poll of the serial buffer and, when read_until returns, everything  *)
(* the script does up to the first poll of its next read_until.            *)
(***************************************************************************)

\* the polls a read_until makes before its timeout has elapsed
MaxPolls == 3
\* the bytes of earlier answers that may still be on their way when the next
\* command is written (older ones have arrived and are discarded by
\* reset_input_buffer)
MaxStale == 1
\* the recipients a configuration may list
MaxRecipients == 3
\* range(20): the polls for READY after the PIN was entered
PinPolls == 20

T_OK == << "O", "K" >>
T_ERROR == << "E", "R", "R", "O", "R" >>
T_PROMPT == << ">" >>
T_CMGS == << "+", "C", "M", "G", "S" >>
T_SIM_PIN == << "S", "I", "M", " ", "P", "I", "N" >>
T_READY == << "R", "E", "A", "D", "Y" >>
NL == << "\n" >>

\* w in txt
Contains(txt, w) ==
    \E i \in 1..(Len(txt) - Len(w) + 1) : SubSeq(txt, i, i + Len(w) - 1) = w

Digits == { "0", "1", "2", "3", "4", "5", "6", "7", "8", "9" }
Spaces == { " ", "\n" }

\* the longest run of characters of S in txt from position i on
RECURSIVE Run(_, _, _)
Run(txt, i, S) ==
    IF i <= Len(txt) /\ txt[i] \in S THEN << txt[i] >> \o Run(txt, i + 1, S)
    ELSE << >>

\* re.search(r"\+CMGS:\s*(\d+)", resp): group 1 of the leftmost match, or "?"
MsgRef(resp) ==
    LET head == T_CMGS \o << ":" >>
        digitsAt(i) == Run(resp, i + Len(head) + Len(Run(resp, i + Len(head), Spaces)),
                           Digits)
        hits == { i \in 1..(Len(resp) - Len(head) + 1) :
                     /\ SubSeq(resp, i, i + Len(head) - 1) = head
                     /\ digitsAt(i) # << >> } IN
    IF hits = {} THEN << "?" >>
    ELSE digitsAt(CHOOSE i \in hits : \A j \in hits : i <= j)

\* what a modem may answer, by name
AnswerText(a) ==
    CASE a = "ok" -> T_OK
      [] a = "error" -> T_ERROR
      [] a = "silent" -> << >>
      [] a = "ready" -> T_READY \o NL \o T_OK
      [] a = "sim_pin" -> T_SIM_PIN \o NL \o T_OK
      [] a = "prompt" -> T_PROMPT
      [] a = "ref" -> T_CMGS \o << ":", " ", "4", "2" >> \o NL \o T_OK
      [] a = "bare_ok" -> T_OK

\* the answers followed for each command
Answers(st) ==
    CASE st \in { "CPIN?", "CPIN?wait" } -> { "ready", "sim_pin", "error", "silent" }
      [] st = "CMGS" -> { "prompt", "error", "silent" }
      [] st = "body" -> { "ref", "bare_ok", "error", "silent" }
      [] OTHER -> { "ok", "error", "silent" }

\* the answer of a modem that is ready, needs no PIN and accepts everything
Nominal(st) ==
    CASE st \in { "CPIN?", "CPIN?wait" } -> "ready"
      [] st = "CMGS" -> "prompt"
      [] st = "body" -> "ref"
      [] OTHER -> "ok"

\* the token send_at expects for each command
Expect(st) == IF st = "CMGS" THEN T_PROMPT ELSE T_OK

\* the tokens read_until looks for: send_at passes [expect, "ERROR"], the wait
\* for the modem's acknowledgment ["+CMGS", "OK", "ERROR"]
Wanted(st) ==
    IF st = "body" THEN << T_CMGS, T_OK, T_ERROR >> ELSE << Expect(st), T_ERROR >>

\* a pass that does not look for "ERROR"
read_until_pass_no_error(wanted, txt, n, polled) ==
    IF n > 0 /\ \E i \in 1..Len(wanted) : Contains(txt, wanted[i]) THEN "true"
    ELSE IF polled + 1 >= MaxPolls THEN "timeout"
    ELSE "again"

\* one pass of read_until's loop, txt being the text accumulated after n new
\* bytes were read: "true"/"false" when it returns, "again" when it sleeps
read_until_pass(wanted, txt, n, polled) ==
    IF n > 0 /\ \E i \in 1..Len(wanted) : Contains(txt, wanted[i]) THEN "true"
    ELSE IF n > 0 /\ Contains(txt, T_ERROR) THEN "false"
    ELSE IF polled + 1 >= MaxPolls THEN "timeout"
    ELSE "again"

\* send_at's result: ok and (expect in resp)
send_at_ok(st, returned, resp) == returned = "true" /\ Contains(resp, Expect(st))

\* send_sms_to_number's verdict on the acknowledgment (line 158)
Delivered(resp) == Contains(resp, T_CMGS) /\ Contains(resp, T_OK)

SenderInit ==
    /\ spc = "init"
    /\ stage = ""
    /\ tries = 0
    /\ rcpt = 0
    /\ line = << >>
    /\ buf = << >>
    /\ polls = 0
    /\ outcomes = << >>
    /\ exit_status = << >>
    /\ ser_open = FALSE
    /\ opens = 0
    /\ recipients = 0
    /\ sim_pin = FALSE
    /\ sends = 0
    /\ pin_asked = FALSE
    /\ answer = ""
    /\ prompt_answer = ""
    /\ send_log = << >>
    /\ modem_nominal = TRUE
    /\ io_fault = FALSE
    /\ just_read = << >>
    /\ passed = {}
    /\ pin_submits = 0
    /\ delays = 0

\* the part of the state that the script's straight-line code works on
Here(rest) ==
    [ stage |-> stage, tries |-> tries, rcpt |-> rcpt, line |-> rest,
      outcomes |-> outcomes, exit |-> exit_status, sends |-> sends,
      pin_asked |-> pin_asked, answer |-> answer, prompt_answer |-> prompt_answer,
      send_log |-> send_log, nominal |-> modem_nominal, just_read |-> just_read,
      passed |-> passed, pin_submits |-> pin_submits,
      delays |-> delays ]

\* send_at up to its read_until: reset_input_buffer discards the bytes that
\* have arrived, the command is written, and the modem answers it
send_at(s, st, t) ==
    { [ s EXCEPT !.stage = st, !.tries = t, !.answer = a,
                 !.line = SubSeq(s.line, k + 1, Len(s.line)) \o AnswerText(a),
                 !.sends = IF st = "CMGS" THEN @ + 1 ELSE @,
                 !.pin_submits = IF st = "CPIN=" THEN @ + 1 ELSE @,
                 !.nominal = @ /\ a = Nominal(st) ] :
        a \in Answers(st),
        k \in { j \in 0..Len(s.line) : Len(s.line) - j <= MaxStale } }

\* the message body and Ctrl-Z are written without discarding any input
write_body(s) ==
    { [ s EXCEPT !.stage = "body", !.tries = 0, !.prompt_answer = s.answer,
                 !.answer = a, !.line = s.line \o AnswerText(a),
                 !.nominal = @ /\ a = Nominal("body") ] :
        a \in Answers("body") }

\* sys.exit(code)
sys_exit(s, code) ==
    { [ s EXCEPT !.exit = << code >>, !.stage = "", !.tries = 0, !.line = << >>,
                 !.answer = "", !.prompt_answer = "" ] }

Successes(outs) == Cardinality({ i \in 1..Len(outs) : outs[i].delivered })

\* main's loop over the recipients, after one send_sms_to_number has returned:
\* the sleep (line 196), and the next recipient
AfterRecipient(s) ==
    IF s.rcpt < recipients
    THEN send_at([ s EXCEPT !.rcpt = @ + 1, !.delays = @ + 1 ], "CMGS", 0)
    ELSE IF Successes(s.outcomes) = recipients THEN sys_exit(s, 0)
    ELSE IF Successes(s.outcomes) = 0 THEN sys_exit(s, 8)
    ELSE sys_exit(s, 9)

\* the commands whose result the script does not look at
BestEffort == { "ATE0", "CMEE", "CREG", "COPS", "CSCS", "CSMP" }

\* what is noted of a read_until that returns (returned, resp) for stage s.stage
Noted(s, returned, resp) ==
    LET sent_ok == send_at_ok(s.stage, returned, resp) IN
    [ s EXCEPT
        !.just_read = << [ st |-> s.stage, attempt |-> s.tries, ok |-> sent_ok,
                           sim_pin |-> Contains(resp, T_SIM_PIN),
                           ready |-> Contains(resp, T_READY),
                           ref |-> MsgRef(resp) # << "?" >> ] >>,
        !.passed = @ \cup
            (CASE s.stage = "AT" /\ sent_ok -> { "AT" }
               [] s.stage = "CPIN?" /\ ~ Contains(resp, T_SIM_PIN) -> { "PIN" }
               [] s.stage = "CPIN?wait" /\ Contains(resp, T_READY) -> { "PIN" }
               [] s.stage = "CMGF" /\ sent_ok -> { "CMGF" }
               [] OTHER -> {}) ]

\* a handshake that gives up after the first attempt
handshake_no_retry(attempt) == FALSE

\* for _ in range(3) (line 97): another AT after attempt number attempt
handshake_retry(attempt) == attempt < 3

\* a PIN wait that gives up after the first poll
pin_poll_once(attempt) == FALSE

\* for _ in range(20) (line 122): another poll after poll number attempt
pin_poll_again(attempt) == attempt < PinPolls

\* a command whose failure ends the script
best_effort_or_exit(s, sent_ok, st) ==
    IF sent_ok THEN send_at(s, st, 0) ELSE sys_exit(s, 5)

\* send_at(...) with its result dropped (lines 108, 109, 132, 133, 140, 141):
\* the next command st is written whatever the answer was
best_effort(s, sent_ok, st) ==
    send_at(s, st, 0)

\* a text mode that is not checked
text_mode_unchecked(s, sent_ok) ==
    send_at(s, "CSCS", 0)

\* lines 136-140: AT+CMGF=1 must be answered OK
text_mode(s, sent_ok) ==
    IF ~ sent_ok THEN sys_exit(s, 5) ELSE send_at(s, "CSCS", 0)

\* the script from the return of a read_until (returned, resp) to its next
\* read_until or its exit
Proceed(s0, returned, resp) ==
    LET sent_ok == send_at_ok(s0.stage, returned, resp)
        s == Noted(s0, returned, resp) IN
    CASE s.stage = "AT" ->
           IF sent_ok THEN send_at(s, "ATE0", 0)
           ELSE IF handshake_retry(s.tries) THEN send_at(s, "AT", s.tries + 1)
           ELSE sys_exit(s, 3)
      [] s.stage = "ATE0" -> best_effort(s, sent_ok, "CMEE")
      [] s.stage = "CMEE" -> best_effort(s, sent_ok, "CPIN?")
      [] s.stage = "CPIN?" ->
           IF Contains(resp, T_SIM_PIN)
           THEN IF ~ sim_pin THEN sys_exit([ s EXCEPT !.pin_asked = TRUE ], 4)
                ELSE send_at([ s EXCEPT !.pin_asked = TRUE ], "CPIN=", 0)
           ELSE send_at(s, "CREG", 0)
      [] s.stage = "CPIN=" ->
           IF ~ sent_ok THEN sys_exit(s, 4) ELSE send_at(s, "CPIN?wait", 1)
      [] s.stage = "CPIN?wait" ->
           IF Contains(resp, T_READY) THEN send_at(s, "CREG", 0)
           ELSE IF pin_poll_again(s.tries) THEN send_at(s, "CPIN?wait", s.tries + 1)
           ELSE sys_exit(s, 4)
      [] s.stage = "CREG" -> best_effort(s, sent_ok, "COPS")
      [] s.stage = "COPS" -> best_effort(s, sent_ok, "CMGF")
      [] s.stage = "CMGF" -> text_mode(s, sent_ok)
      [] s.stage = "CSCS" -> best_effort(s, sent_ok, "CSMP")
      [] s.stage = "CSMP" -> best_effort([ s EXCEPT !.rcpt = 1 ], sent_ok, "CMGS")
      [] s.stage = "CMGS" ->
           IF ~ sent_ok
           THEN AfterRecipient(
                  [ s EXCEPT !.outcomes = Append(@, [ delivered |-> FALSE, ref |-> << >> ]),
                             !.send_log = Append(@, IF s.answer = "error" THEN "refused"
                                                    ELSE "no_prompt") ])
           ELSE write_body(s)
      [] s.stage = "body" ->
           AfterRecipient(
             [ s EXCEPT !.outcomes = Append(@, [ delivered |-> Delivered(resp),
                                                 ref |-> IF Delivered(resp) THEN MsgRef(resp)
                                                         ELSE << >> ]),
                        !.send_log = Append(@, IF /\ s.prompt_answer = "prompt"
                                                  /\ s.answer = "ref"
                                                  /\ returned = "true"
                                               THEN "normal" ELSE "other") ])

\* a script without the finally clause
finally_nothing(open, exit) ==
    open

\* main's finally (lines 210-214): ser.close() once the script is leaving
finally_close(open, exit) ==
    open /\ exit = << >>

\* the state after the straight-line code
Becomes(n, open) ==
    /\ stage' = n.stage
    /\ tries' = n.tries
    /\ rcpt' = n.rcpt
    /\ line' = n.line
    /\ outcomes' = n.outcomes
    /\ exit_status' = n.exit
    /\ sends' = n.sends
    /\ pin_asked' = n.pin_asked
    /\ answer' = n.answer
    /\ prompt_answer' = n.prompt_answer
    /\ send_log' = n.send_log
    /\ modem_nominal' = n.nominal
    /\ just_read' = n.just_read
    /\ passed' = n.passed
    /\ pin_submits' = n.pin_submits
    /\ delays' = n.delays
    /\ buf' = << >>
    /\ polls' = 0
    /\ spc' = IF n.exit = << >> THEN "read" ELSE "exited"
    /\ ser_open' = finally_close(open, n.exit)

\* main up to the first read_until: the configuration, open_serial, "AT"
Main(nrecipients, has_message, pin, port_ok) ==
    /\ spc = "init"
    /\ recipients' = nrecipients
    /\ sim_pin' = pin
    /\ IF nrecipients = 0 \/ ~ has_message \/ ~ port_ok
       THEN /\ spc' = "exited"
            /\ exit_status' = << 2 >>
            /\ UNCHANGED << stage, tries, rcpt, line, buf, polls, outcomes, ser_open,
                            opens, sends, pin_asked, answer, prompt_answer, send_log,
                            modem_nominal, just_read, passed, pin_submits, delays >>
       ELSE /\ opens' = opens + 1
            /\ \E n \in send_at(Here(line), "AT", 1) : Becomes(n, TRUE)
    /\ UNCHANGED io_fault
    /\ UNCHANGED NotSender

\* one pass of read_until's loop, some n bytes having arrived
Poll ==
    /\ spc = "read"
    /\ \E n \in 0..Len(line) :
       LET txt == buf \o SubSeq(line, 1, n)
           rest == SubSeq(line, n + 1, Len(line))
           returned == read_until_pass(Wanted(stage), txt, n, polls) IN
       IF returned = "again"
       THEN /\ buf' = txt
            /\ line' = rest
            /\ polls' = polls + 1
            /\ just_read' = << >>
            /\ UNCHANGED << spc, stage, tries, rcpt, outcomes, exit_status, ser_open,
                            sends, pin_asked, answer, prompt_answer, send_log,
                            modem_nominal, passed, pin_submits, delays >>
       ELSE \E s \in Proceed(Here(rest), returned, txt) : Becomes(s, ser_open)
    /\ UNCHANGED << opens, recipients, sim_pin, io_fault >>
    /\ UNCHANGED NotSender

\* ser.in_waiting, ser.read or ser.write raises: nothing catches it, the
\* finally clause closes the device and the interpreter exits with status 1
SerialFault ==
    /\ spc = "read"
    /\ spc' = "exited"
    /\ exit_status' = << 1 >>
    /\ ser_open' = FALSE
    /\ io_fault' = TRUE
    /\ stage' = ""
    /\ tries' = 0
    /\ line' = << >>
    /\ buf' = << >>
    /\ polls' = 0
    /\ answer' = ""
    /\ prompt_answer' = ""
    /\ just_read' = << >>
    /\ UNCHANGED << rcpt, outcomes, opens, recipients, sim_pin, sends, pin_asked, send_log,
                    modem_nominal, passed, pin_submits, delays >>
    /\ UNCHANGED NotSender

SenderNext ==
    \/ \E nrecipients \in 0..MaxRecipients, has_message \in BOOLEAN,
          pin \in BOOLEAN, port_ok \in BOOLEAN :
          Main(nrecipients, has_message, pin, port_ok)
    \/ Poll
    \/ SerialFault

(***************************************************************************)
(* read_until on its own: any list of tokens, any bytes on the wire, and   *)
(* any split of them over the passes of the loop.                          *)
(***************************************************************************)

\* a byte that is not valid UTF-8 (0xFF)
BadByte == "xFF"

\* bytes.decode(errors="ignore"): the bytes that do not decode are dropped
decode(bytes) == SelectSeq(bytes, LAMBDA b : b # BadByte)

\* the lists read_until is called with (lines 60 and 154), and lists without
\* "ERROR"
WantLists ==
    { << T_OK, T_ERROR >>, << T_PROMPT, T_ERROR >>, << T_CMGS, T_OK, T_ERROR >>,
      << T_OK >>, << T_PROMPT >> }

\* what the device may deliver during one call: nothing, one or two of these
WirePieces ==
    { T_OK, T_ERROR, T_PROMPT, T_CMGS \o << ":", " ", "4", "2" >>, << "x" >>,
      << BadByte >>, << "O", BadByte, "K" >> }
Wires == { << >> } \cup WirePieces \cup { a \o b : a \in WirePieces, b \in WirePieces }

ReadInit ==
    /\ ru_pc = "idle"
    /\ want_any_of = << >>
    /\ ru_wire = << >>
    /\ ru_buf = << >>
    /\ ru_polls = 0
    /\ ru_taken = << >>
    /\ ru_ret = << >>

\* lines 39-40: read_until(ser, want, timeout) is called
ReadUntilCall(want, wire) ==
    /\ ru_pc = "idle"
    /\ ru_pc' = "loop"
    /\ want_any_of' = want
    /\ ru_wire' = wire
    /\ ru_buf' = << >>
    /\ UNCHANGED << ru_polls, ru_taken, ru_ret >>
    /\ UNCHANGED NotRead

\* lines 41-52: one pass of the loop, n bytes being in the serial buffer
ReadUntilPass ==
    /\ ru_pc = "loop"
    /\ \E n \in 0..Len(ru_wire) :
         LET bytes == ru_buf \o SubSeq(ru_wire, 1, n)
             txt == decode(bytes)
             returned == read_until_pass(want_any_of, txt, n, ru_polls) IN
         /\ ru_buf' = bytes
         /\ ru_taken' = ru_taken \o SubSeq(ru_wire, 1, n)
         /\ ru_wire' = SubSeq(ru_wire, n + 1, Len(ru_wire))
         /\ ru_polls' = ru_polls + 1
         /\ IF returned = "again"
            THEN UNCHANGED << ru_pc, ru_ret >>
            ELSE /\ ru_pc' = "returned"
                 /\ ru_ret' = << [ ok |-> returned = "true", txt |-> txt ] >>
    /\ UNCHANGED want_any_of
    /\ UNCHANGED NotRead

ReadNext ==
    \/ \E want \in WantLists, wire \in Wires : ReadUntilCall(want, wire)
    \/ ReadUntilPass

(***************************************************************************)
(* The specifications.                                                     *)
(***************************************************************************)

Init == MonitorInit /\ ExecutorInit /\ SenderInit /\ ReadInit

SpecMonitor == Init /\ [][MonitorNext]_vars

\* the loop is the one thread of its process: it takes its next step, every
\* probe, script and sleep being bounded in time; a signal need not ever come
MonitorFairness ==
    WF_vars(LoopHead(SignalHorizon) \/ PrimaryPing \/ Decide \/ Sleep)

SpecMonitorFair == Init /\ [][SignalNext]_vars /\ MonitorFairness

SpecExecutor == Init /\ [][ExecutorNext]_vars

SpecTimeout == Init /\ [][TimeoutNext]_vars

SpecValidate == Init /\ [][ValidateNext]_vars

SpecClassify == Init /\ [][ClassifyNext]_vars

SpecSender == Init /\ [][SenderNext]_vars

\* the loop of read_until is straight-line code whose calls do not block
\* (in_waiting, a read of the bytes that are there, a sleep of 0.05 s): a pass
\* that can be made is made
SpecReadUntil == Init /\ [][ReadNext]_vars /\ WF_vars(ReadUntilPass)

SpecExecutorLoad == Init /\ [][LoadNext]_vars /\ LoadFairness

(***************************************************************************)
(* Claims about the poll loop.  A tick has been decided when the loop is   *)
(* at its sleep; the tick_ variables then describe that tick.              *)
(***************************************************************************)

TickDecided == mpc = "sleep"
Entered == in_outage /\ ~tick_start_outage
Left == ~in_outage /\ tick_start_outage
ScriptsAmong(S) == \A i \in 1..Len(tick_scripts) : tick_scripts[i] \in S
RouterProbes == { i \in 1..Len(tick_probes) : tick_probes[i][1] = router_ip }

\* C1 (as stated): a tick enters the outage iff its primary probe failed and the
\* streak after the increment is >= failure_threshold.
C1_EnterIffStreakAtLeast ==
    TickDecided =>
        (Entered <=> (~ok /\ failure_streak >= failure_threshold))

\* C1 (amended): a tick enters the outage iff the loop was not in outage at its
\* start, its primary probe failed and the streak after the increment is >=
\* failure_threshold; exactly one alert script is run on that tick; a tick that
\* starts in outage runs no alert script: at most one script, the clear script on
\* a successful probe, else the reminder script and only once the reminder
\* interval has elapsed.
C1_EnterOnceAlertOnce ==
    TickDecided =>
        /\ Entered <=> (~tick_start_outage /\ ~ok /\ failure_streak >= failure_threshold)
        /\ Entered => /\ Len(tick_scripts) = 1
                      /\ tick_scripts[1] \in AlertScripts
        /\ tick_start_outage =>
              /\ ScriptsAmong({reminder_script, clear_script})
              /\ Len(tick_scripts) <= 1
              /\ (tick_scripts = << reminder_script >>) =>
                    (~ok /\ tick_elapsed >= reminder_interval_seconds)
              /\ (tick_scripts = << clear_script >>) => ok

\* C1 witness: an outage has been entered with its one alert, and a later tick of
\* the same outage has failed again without any script
C1_Witness ==
    /\ TickDecided /\ tick_start_outage /\ in_outage /\ ~ok
    /\ tick_scripts = << >>
    /\ failure_streak > failure_threshold

\* C2: a tick that starts in outage and whose primary probe succeeds runs the
\* clear script exactly once and nothing else, leaves the outage and resets the
\* streak to 0, however many reminders the outage has seen.
C2_SingleSuccessClears ==
    (TickDecided /\ tick_start_outage /\ ok) =>
        /\ tick_scripts = << clear_script >>
        /\ ~in_outage
        /\ failure_streak = 0

\* C2 witness: an outage that has sent a reminder is cleared by one success
C2_Witness ==
    /\ TickDecided /\ tick_start_outage /\ ok
    /\ outage_reminders >= 1
    /\ tick_scripts = << clear_script >>

\* C3: the tick that enters the outage is the one whose streak reaches
\* failure_threshold (4); it probes the router exactly once, with count 1, and
\* runs the network alert iff the router answered and the power alert iff it
\* did not; no other tick probes the router.
C3_RouterProbeClassifies ==
    TickDecided =>
        /\ Entered =>
              /\ failure_streak = failure_threshold
              /\ Cardinality(RouterProbes) = 1
              /\ \A i \in RouterProbes :
                    /\ tick_probes[i][2] = 1
                    /\ tick_scripts =
                         << IF tick_probes[i][3] THEN alert_network_script
                            ELSE alert_power_script >>
        /\ ~Entered => RouterProbes = {}

\* C3 witness: the 4th failed tick with the router answering: the network alert
C3_Witness ==
    /\ TickDecided /\ Entered /\ failure_streak = 4
    /\ tick_probes = << << internet_ip, ping_count, FALSE >>, << router_ip, 1, TRUE >> >>
    /\ tick_scripts = << alert_network_script >>

\* C15: a tick runs the reminder script iff its primary probe failed, the loop
\* was in outage at its start and, at its decision, the time since
\* last_reminder_monotonic is >= reminder_interval_seconds; that time stamp is
\* set to the clock (after the script has returned) by the tick that enters the
\* outage and by each tick that runs the reminder, and by no other tick, so a
\* reminder is decided no earlier than one interval after the alert or the
\* previous reminder of the outage; the entering tick runs no reminder.
C15_ReminderCadence ==
    /\ [](TickDecided =>
             /\ (\E i \in 1..Len(tick_scripts) : tick_scripts[i] = reminder_script)
                   <=> (~ok /\ tick_start_outage
                        /\ tick_elapsed >= reminder_interval_seconds)
             /\ (Entered \/ tick_scripts = << reminder_script >>) =>
                   last_reminder_monotonic = now
             /\ Entered => ScriptsAmong(AlertScripts))
    /\ [][ (mpc = "decide" /\ mpc' = "sleep") =>
               /\ tick_scripts' = << reminder_script >> =>
                     /\ in_outage /\ in_outage'
                     /\ now - last_reminder_monotonic >= reminder_interval_seconds
                     /\ outage_reminders' = outage_reminders + 1
               /\ (in_outage' /\ in_outage /\ tick_scripts' # << reminder_script >>) =>
                     last_reminder_monotonic' = last_reminder_monotonic ]_vars
    /\ [][ mpc # "decide" => last_reminder_monotonic' = last_reminder_monotonic ]_vars

\* C15 witness: the second reminder of an outage has just been run
C15_Witness ==
    /\ TickDecided /\ tick_start_outage /\ in_outage /\ ~ok
    /\ tick_scripts = << reminder_script >>
    /\ outage_reminders = 2
    /\ last_reminder_monotonic = now

\* C16: in_outage goes from true to false only in the decision of a tick whose
\* primary probe succeeded: a tick that starts in outage and whose probe failed
\* ends in outage, whatever the streak, the reminders sent, the fate of the
\* scripts (missing, failed, timed out) and the router, whose state such a
\* tick does not even ask for.
C16_OnlySuccessEndsOutage ==
    /\ [][ (in_outage /\ ~in_outage') => (mpc = "decide" /\ ok) ]_vars
    /\ []((TickDecided /\ tick_start_outage /\ ~ok) =>
             /\ in_outage
             /\ RouterProbes = {})

\* C16 witness: an outage that has seen failed ticks beyond the threshold and a
\* reminder whose script was missing is still on after one more failed tick
C16_Witness ==
    /\ TickDecided /\ tick_start_outage /\ in_outage /\ ~ok
    /\ failure_streak > failure_threshold + 1
    /\ outage_reminders = 1
    /\ tick_scripts = << reminder_script >> /\ tick_spawned = << >>

\* C17: the notification actions the loop emits (its run_script calls) form a
\* prefix of a word of (Alert Reminder* Clear)*: a tick emits at most one
\* action, and only in its decision; an alert (network or power) is emitted
\* only as the first action or after a clear; a reminder and a clear only
\* after an alert or a reminder.
C17_AlertRemindersClear ==
    /\ [][ (mpc = "decide" /\ mpc' = "sleep") =>
               /\ Len(tick_scripts') <= 1
               /\ \A i \in 1..Len(tick_scripts') :
                     LET x == tick_scripts'[i] IN
                     /\ x \in AlertScripts \cup { reminder_script, clear_script }
                     /\ x \in AlertScripts => last_script \in { "", clear_script }
                     /\ x \in { reminder_script, clear_script } =>
                           last_script \in AlertScripts \cup { reminder_script } ]_vars
    /\ [][ mpc # "decide" =>
               (tick_scripts' \in { << >>, tick_scripts } /\ last_script' = last_script) ]_vars

\* C17 witness: the word Alert Reminder Clear has been emitted
C17_Witness ==
    /\ TickDecided /\ tick_scripts = << clear_script >> /\ last_script = clear_script
    /\ outage_reminders = 1

\* C18: on every tick on which in_outage becomes true, the chosen alert script
\* has been started as a child process on that tick, also when the script file
\* is missing or the script fails or times out.
C18_OutageOnlyWithAlertStarted ==
    (TickDecided /\ Entered) =>
        /\ Len(tick_spawned) = 1
        /\ tick_spawned = tick_scripts
        /\ tick_spawned[1] \in AlertScripts

\* C19: a signal changes the stop flag and nothing else; with the flag set the
\* tick in progress goes on through its probe, its decision (with any script)
\* and its sleep, the loop head then ends the loop without a new probe, and a
\* stopped loop stays stopped; the loop stops only on the flag; and once the
\* flag is set the loop eventually stops.
C19_StopFlagEndsLoopAfterTick ==
    /\ [][ stop_flag' # stop_flag =>
               /\ stop_flag'
               /\ UNCHANGED << mpc, ok, failure_streak, in_outage,
                               last_reminder_monotonic, now, tick_probes,
                               tick_scripts, tick_spawned >> ]_vars
    /\ [][ stop_flag =>
               /\ mpc = "ping" => (mpc' = "decide" /\ Len(tick_probes') = 1)
               /\ mpc = "decide" => mpc' = "sleep"
               /\ mpc = "sleep" => (mpc' = "head" /\ now' = now + check_interval_seconds)
               /\ mpc = "head" => mpc' = "stopped"
               /\ mpc = "stopped" => mpc' = "stopped" ]_vars
    /\ [](mpc = "stopped" => stop_flag)
    /\ stop_flag ~> (mpc = "stopped")

\* C19 witness: the signal came during an outage, while a tick was under way,
\* and the loop has stopped, still in outage
C19_Witness ==
    /\ mpc = "stopped" /\ stop_flag
    /\ in_outage /\ failure_streak > failure_threshold

\* C13: a primary probe whose ping could not be run (missing, not permitted,
\* any exception) returns False: the tick goes on to its decision, which
\* increments the streak as for an unanswered probe; once the probe has raised
\* on failure_threshold consecutive ticks the loop is in outage, the tick that
\* entered it having run an alert script; and the loop stops only on the stop
\* flag.
C13_ProbeFaultCountsAsFailure ==
    /\ [][ (mpc = "decide" /\ mpc' = "sleep" /\ tick_fault) =>
               failure_streak' = failure_streak + 1 ]_vars
    /\ [][ mpc = "ping" => mpc' \in { "ping", "decide" } ]_vars
    /\ [](tick_fault => ~ok)
    /\ []((TickDecided /\ fault_streak >= failure_threshold) =>
             /\ in_outage
             /\ Entered => (Len(tick_scripts) = 1 /\ tick_scripts[1] \in AlertScripts))
    /\ [](mpc = "stopped" => stop_flag)

\* C13 witness: the primary probe has raised on each of the first
\* failure_threshold ticks, and the 4th of them has entered the outage with an
\* alert
C13_Witness ==
    /\ TickDecided /\ tick_fault /\ fault_streak = failure_threshold
    /\ failure_streak = failure_threshold
    /\ Entered
    /\ tick_scripts[1] \in AlertScripts

(***************************************************************************)
(* Claims about the executor.                                              *)
(***************************************************************************)

HoldsSlot(c) == epc[c] \in { "woken", "waiting", "reaping" }
InsideTheGate(c) == epc[c] \in { "waiting", "reaping" }
LiveChild(c) == child[c] \in { "running", "killed" }
Returned(c) == epc[c] = "done" /\ rejected[c] = ""
FaultResults == { FaultResult(e) : e \in FaultTexts }

\* C4: a call made with a name the registry does not hold has returned as soon
\* as it is made, with success = false, exit_code = -1 and the 'not found'
\* message (the route answers INVALID_COMMAND without calling the executor); it
\* has acquired no slot, spawned no child and never waits at the gate.
C4_UnknownCommandNoSideEffects ==
    \A c \in Calls :
        (epc[c] # "idle" /\ command_name[c] \notin DOMAIN commands) =>
            /\ epc[c] = "done"
            /\ acquired[c] = 0 /\ spawns[c] = 0 /\ child[c] = "none"
            /\ \/ /\ rejected[c] = "INVALID_COMMAND"
                  /\ result[c] = NoResult
               \/ /\ rejected[c] = ""
                  /\ ~result[c].success
                  /\ result[c].exit_code = -1
                  /\ MentionsNotFound(result[c].error_message)
                  /\ RouteErrorCode(result[c]) = "INVALID_COMMAND"

\* C4 witness: the executor is called with an unknown name while every slot is
\* taken by an earlier call, and has returned 'not found'
C4_Witness ==
    \E c \in Calls :
        /\ command_name[c] = "reboot" /\ Returned(c)
        /\ result[c] = NotFoundResult("reboot")
        /\ sem_value = 0
        /\ Cardinality({ d \in 1..(c - 1) : InsideTheGate(d) }) = MAX_CONCURRENT_EXECUTIONS

\* C5: when the deadline passes with the child still running the child is
\* killed and the call waits for it; a call that timed out returns success =
\* false, exit_code = -1 and a message the route classifies as EXECUTION_TIMEOUT,
\* and only after its child has terminated; a child is killed on no other path,
\* and no call spawns a second child.  (Whether anything else is classified as
\* a timeout is C23's subject.)
C5_TimeoutKillsAndReports ==
    \A c \in Calls :
        /\ spawns[c] <= 1 /\ kills[c] <= 1
        /\ epc[c] = "reaping" => (kills[c] = 1 /\ child[c] = "killed")
        /\ child[c] \in { "killed", "reaped" } => kills[c] = 1
        /\ (epc[c] = "done" /\ kills[c] = 1) =>
              /\ child[c] \in { "reaped", "exited" }
              /\ ~result[c].success
              /\ result[c].exit_code = -1
              /\ RouteErrorCode(result[c]) = "EXECUTION_TIMEOUT"

\* C5 witness: a command with the default timeout 60 whose child was still
\* running at the deadline has been killed, reaped and reported
C5_Witness ==
    \E c \in Calls :
        /\ Returned(c) /\ exec_timeout[c] = 60
        /\ child[c] = "reaped" /\ kills[c] = 1
        /\ result[c] = TimeoutResult

\* C6: under load (valid calls, more than the gate has slots) a call that finds
\* the gate full queues; it leaves the queue only by being handed a slot that
\* a call which was inside the gate has given up on returning, and has spawned
\* nothing before; no call is rejected: each one that returns has run one child and
\* returns its exit code or its timeout; and every queued call eventually
\* returns, also when no child ever exits on its own.
C6_QueuedCallsAreServed ==
    /\ [][ \A c \in Calls :
              (epc[c] = "queued" /\ epc'[c] # "queued") =>
                  /\ epc'[c] = "woken"
                  /\ \E d \in Calls \ {c} : acquired[d] = 1 /\ epc'[d] = "done" ]_vars
    /\ [](\A c \in Calls :
              /\ epc[c] \in { "queued", "woken" } => (spawns[c] = 0 /\ child[c] = "none")
              /\ epc[c] = "done" =>
                    /\ spawns[c] = 1
                    /\ result[c] \in { CompletedResult(0), CompletedResult(1),
                                       TimeoutResult })
    /\ \A c \in Calls : (epc[c] = "queued") ~> (epc[c] = "done")

\* C6 witness: a queued call has been handed a slot that a timeout freed, while
\* no child has exited on its own
C6_Witness ==
    \E c \in Calls :
        /\ epc[c] = "woken"
        /\ \A d \in Calls \ {c} : child[d] \in { "running", "reaped" }
        /\ \E d \in Calls \ {c} : epc[d] = "done" /\ child[d] = "reaped"

\* C11: the step in which a call's deadline passes, and the step in which its
\* killed child has been reaped, leave every other call that is inside the gate
\* as it is: its slot, its child, its result; a child is killed only by the
\* timeout of its own call; and a call that has run a child returns what its
\* own child determines: the exit code if the child exited within the
\* deadline, the timeout result if its own deadline passed (and the fault
\* result if its own wait raised).
C11_TimeoutKillsOnlyItsOwnChild ==
    /\ [][ \A c \in Calls :
              (kills'[c] > kills[c] \/ (epc[c] = "reaping" /\ epc'[c] = "done")) =>
                  \A d \in Calls \ {c} :
                      InsideTheGate(d) =>
                          /\ epc'[d] = epc[d]
                          /\ child'[d] = child[d]
                          /\ kills'[d] = kills[d]
                          /\ result'[d] = result[d] ]_vars
    /\ [](\A d \in Calls :
              /\ child[d] \in { "killed", "reaped" } => kills[d] = 1
              /\ (Returned(d) /\ spawns[d] = 1) =>
                    IF raised[d] = "wait"
                    THEN kills[d] = 0 /\ result[d] \in FaultResults
                    ELSE IF kills[d] = 0
                    THEN /\ child[d] = "exited"
                         /\ result[d] \in { CompletedResult(x) : x \in ExitCodes }
                    ELSE result[d] = TimeoutResult)

\* C11 witness: one call has timed out and its child is being reaped while a
\* second call's child is still running and a third call, whose child ran next
\* to them, has returned its child's exit code 1
C11_Witness ==
    \E c, d, e \in Calls :
        /\ epc[c] = "reaping" /\ child[c] = "killed"
        /\ epc[d] = "waiting" /\ child[d] = "running"
        /\ Returned(e) /\ kills[e] = 0 /\ result[e] = CompletedResult(1)

\* clamp(t, lo, hi)
Clamp(t, lo, hi) == IF t < lo THEN lo ELSE IF t > hi THEN hi ELSE t

\* C12: the effective timeout of a call is clamp(t, 1, MAX_TIMEOUT), t being the
\* timeout of the request if it has one and the command's default otherwise:
\* above MAX_TIMEOUT it is MAX_TIMEOUT, below 1 it is 1, in between it is t.
C12_EffectiveTimeoutIsClamp ==
    timeout_call # << >> =>
        LET r == timeout_call[1]
            t == IF r.timeout # None THEN r.timeout[1]
                 ELSE commands[r.command_name].timeout_default IN
        r.exec_timeout = Clamp(t, 1, MAX_TIMEOUT)

\* C14: the registry is built only when the script of every whitelisted
\* command is in place, and then holds exactly the whitelist's definitions; if
\* a script is missing the start fails and no call is ever served; once built,
\* the registry is never changed by any call of the executor or of the route
\* (which use get_command, list_commands, is_valid_command and
\* validate_command_args).
C14_RegistryFixedAtStartup ==
    /\ [](startup = "ready" =>
             /\ scripts_present = WhitelistNames
             /\ commands = InitialCommands)
    /\ [](startup = "failed" => scripts_present # WhitelistNames)
    /\ [](startup # "ready" => \A c \in Calls : epc[c] = "idle")
    /\ [][ startup # "importing" => (startup' = startup /\ commands' = commands) ]_vars

\* C14 witness: after a successful start, calls have been refused by the route,
\* answered 'not found' by the executor, refused for their arguments and run
\* to completion, and the registry is the initial one
C14_Witness ==
    /\ startup = "ready" /\ commands = InitialCommands
    /\ \E c \in Calls : rejected[c] = "INVALID_COMMAND"
    /\ \E c \in Calls : Returned(c) /\ result[c] = NotFoundResult("reboot")
    /\ \E c \in Calls : Returned(c) /\ RouteErrorCode(result[c]) = "EXECUTION_FAILED"
                                     /\ spawns[c] = 0 /\ acquired[c] = 0
    /\ \E c \in Calls : Returned(c) /\ result[c] = CompletedResult(0)

\* C20: every execute_command call that has returned has spawned exactly one
\* child, and that child has terminated (exited, or been killed and reaped).
C20_EveryCallOneChild ==
    \A c \in Calls :
        Returned(c) => (spawns[c] = 1 /\ child[c] \in { "exited", "reaped" })

\* C20, of the calls that spawned: a call that has returned after spawning a
\* child has left no child running.
C20_SpawnedChildTerminated ==
    \A c \in Calls :
        (Returned(c) /\ spawns[c] = 1) => child[c] \in { "exited", "reaped" }

\* an argument map does not match a schema: it has a key the schema does not
\* declare, or a value whose type is not the declared one
SchemaMismatch(schema, args) ==
    \E key \in DOMAIN args :
        \/ key \notin DOMAIN schema
        \/ ~isinstance(args[key], schema[key])

\* C22: no argument map that does not match the schema of a command is found
\* valid: validate_args returns false for a map with an undeclared key or with
\* a value of the wrong type.
C22_MismatchIsInvalid ==
    validate_call # << >> =>
        LET v == validate_call[1] IN
        SchemaMismatch(v.args_schema, v.args) => ~v.is_valid

\* C22, of the calls: a call whose command is not registered or whose
\* arguments validate_command_args refuses has returned a failed result
\* without acquiring a slot or spawning a child, and a request whose mode is
\* not sync is refused by the route without a call of the executor.
C22_InvalidCallsCreateNothing ==
    \A c \in Calls :
        /\ (Returned(c) /\ acquired[c] = 0) =>
              /\ ~result[c].success /\ result[c].exit_code = -1
              /\ spawns[c] = 0 /\ child[c] = "none" /\ released[c] = 0
              /\ \/ result[c] = NotFoundResult(command_name[c])
                 \/ result[c] = InvalidArgsResult(
                                   << "Invalid", "arguments", "for", "command",
                                      command_name[c] >>)
        /\ rejected[c] # "" =>
              /\ epc[c] = "done" /\ result[c] = NoResult
              /\ acquired[c] = 0 /\ spawns[c] = 0 /\ child[c] = "none"

\* the route's classification of a call that has returned or was refused
Classification(c) ==
    IF rejected[c] # "" THEN rejected[c] ELSE RouteErrorCode(result[c])

\* C23: a call of a registered command is classified EXECUTION_TIMEOUT iff its
\* deadline passed and its child was killed; a call whose child exited with a
\* non-zero code, a call whose spawn or wait raised, whatever the text of the
\* exception, and a call of an unknown command are classified otherwise
\* (EXECUTION_FAILED, INVALID_COMMAND), and a call that timed out is never
\* classified EXECUTION_FAILED.
C23_TimeoutIffDeadlinePassed ==
    \A c \in Calls :
        epc[c] = "done" =>
            /\ (Classification(c) = "EXECUTION_TIMEOUT") <=> (kills[c] = 1)
            /\ raised[c] # "" => Classification(c) = "EXECUTION_FAILED"
            /\ command_name[c] \notin DOMAIN commands =>
                  Classification(c) = "INVALID_COMMAND"
            /\ (result[c].exit_code = 1) => Classification(c) = "EXECUTION_FAILED"

\* C21: a call inside the gate whose spawn raised, or whose wait for the child
\* raised, has returned to its caller a result with success = false,
\* exit_code = -1 and an error message that carries the text of the exception;
\* no call ends in any other way than by returning; the call has released the
\* one slot it acquired, and the free slots and the slots held always add up
\* to MAX_CONCURRENT_EXECUTIONS.
C21_FaultsBecomeResults ==
    /\ \A c \in Calls :
           /\ epc[c] \in { "idle", "queued", "woken", "waiting", "reaping", "done" }
           /\ raised[c] # "" =>
                 /\ Returned(c)
                 /\ ~result[c].success
                 /\ result[c].exit_code = -1
                 /\ \E e \in FaultTexts :
                       result[c].error_message = << "Execution", "error:" >> \o e
                 /\ acquired[c] = 1 /\ released[c] = 1
                 /\ ~HoldsSlot(c)
    /\ sem_value + Cardinality({ c \in Calls : HoldsSlot(c) }) = MAX_CONCURRENT_EXECUTIONS

\* C21 witness: one call's spawn raised and another call's wait raised while
\* its child was running; both have returned and every slot is free again
C21_Witness ==
    \E c, d \in Calls :
        /\ raised[c] = "spawn" /\ Returned(c) /\ spawns[c] = 0
        /\ raised[d] = "wait" /\ Returned(d) /\ child[d] = "running"
        /\ sem_value = MAX_CONCURRENT_EXECUTIONS

\* call c has been made and has not returned
InFlight(c) == epc[c] \in { "queued", "woken", "waiting", "reaping" }

\* C32: the gate leaks no slot.  A call acquires at most one slot and releases
\* it at most once; it is inside the gate exactly while it has acquired and not
\* released; a call that has ended (completion, non-zero exit, timeout with the
\* child killed, timeout with the kill failing on a child that is gone, spawn
\* fault, wait fault) has released what it acquired, and a call that has not
\* entered has acquired nothing.  current_count is the number of calls inside
\* the gate and lies in 0..MAX_CONCURRENT_EXECUTIONS; the free slots and the
\* slots held or handed to a woken waiter add up to MAX_CONCURRENT_EXECUTIONS;
\* with no call in flight current_count is 0 and every slot is free.
C32_NoSlotLeak ==
    /\ \A c \in Calls :
           /\ acquired[c] \in 0..1
           /\ released[c] \in 0..acquired[c]
           /\ InsideTheGate(c) <=> (acquired[c] = 1 /\ released[c] = 0)
           /\ epc[c] = "done" => released[c] = acquired[c]
           /\ epc[c] \in { "idle", "queued", "woken" } => acquired[c] = 0
           /\ (epc[c] = "done" /\ (spawns[c] = 1 \/ raised[c] # "")) =>
                 (acquired[c] = 1 /\ released[c] = 1)
    /\ current_count = Cardinality({ c \in Calls : InsideTheGate(c) })
    /\ current_count \in 0..MAX_CONCURRENT_EXECUTIONS
    /\ sem_value \in 0..MAX_CONCURRENT_EXECUTIONS
    /\ sem_value + Cardinality({ c \in Calls : HoldsSlot(c) }) = MAX_CONCURRENT_EXECUTIONS
    /\ (\A c \in Calls : ~ InFlight(c)) =>
           (current_count = 0 /\ sem_value = MAX_CONCURRENT_EXECUTIONS)

\* C32 witness: no call is in flight and no slot is held, after one call
\* completed with a non-zero exit, one timed out with its child killed and
\* reaped, one timed out with the kill failing on a child that was gone, and
\* one had its spawn raise
C32_Witness ==
    /\ \A c \in Calls : epc[c] = "done" /\ acquired[c] = 1 /\ released[c] = 1
    /\ current_count = 0
    /\ \E c \in Calls : kills[c] = 0 /\ raised[c] = "" /\ result[c].exit_code = 1
    /\ \E c \in Calls : kills[c] = 1 /\ child[c] = "reaped"
    /\ \E c \in Calls : kills[c] = 1 /\ child[c] = "exited"
    /\ \E c \in Calls : raised[c] = "spawn"

\* C10: at no time are more than MAX_CONCURRENT_EXECUTIONS children spawned and
\* not yet terminated, nor more than MAX_CONCURRENT_EXECUTIONS calls holding a
\* slot of the gate.
C10_AtMostMaxConcurrent ==
    /\ Cardinality({ c \in Calls : LiveChild(c) }) <= MAX_CONCURRENT_EXECUTIONS
    /\ Cardinality({ c \in Calls : HoldsSlot(c) }) <= MAX_CONCURRENT_EXECUTIONS
    /\ current_count <= MAX_CONCURRENT_EXECUTIONS
    /\ sem_value >= 0

(***************************************************************************)
(* The send script's claims, under SpecSender.                             *)
(***************************************************************************)

Exited == spc = "exited"
DeliveredFlags == [ i \in 1..Len(outcomes) |-> outcomes[i].delivered ]
SomeDelivered == \E i \in 1..Len(outcomes) : outcomes[i].delivered
AllDelivered ==
    /\ recipients >= 1
    /\ Len(outcomes) = recipients
    /\ \A i \in 1..Len(outcomes) : outcomes[i].delivered

\* C7: in a batch to 3 recipients where the modem answers recipients 1 and 3
\* normally (the prompt, then the reference and OK, read before the timeout)
\* and recipient 2 sees no prompt within the timeout (the modem is silent or
\* its prompt is late), the outcomes are delivered, not delivered, delivered
\* and the script exits with the partial-delivery code 9.
C7_MiddlePromptMissingIsPartial ==
    ( /\ Exited
      /\ ~ io_fault
      /\ recipients = 3
      /\ send_log = << "normal", "no_prompt", "normal" >> )
    => ( /\ DeliveredFlags = << TRUE, FALSE, TRUE >>
         /\ exit_status = << 9 >> )

\* C8: against a modem whose every answer is the nominal one (OK to AT, SIM
\* ready, text mode accepted, "+CMGS: 42" then "OK" for a send), a send whose
\* acknowledgment is read before the timeout is delivered with reference 42,
\* however the bytes are split across the polls.
C8_ReferenceThenOkIsDelivered ==
    \A i \in 1..Len(outcomes) :
        ( modem_nominal /\ ~ pin_asked /\ send_log[i] = "normal" )
        => outcomes[i] = [ delivered |-> TRUE, ref |-> << "4", "2" >> ]

\* C9: once the script has exited, its status is 0 iff every recipient was
\* delivered, 8 iff at least one send was attempted and none was delivered,
\* 9 iff some but not all were delivered, and a status of 2..5 means that no
\* AT+CMGS was written.
C9_ExitCodeSignalsOutcome ==
    Exited =>
        /\ (exit_status = << 0 >>) <=> AllDelivered
        /\ (exit_status = << 8 >>) <=> (sends >= 1 /\ ~ SomeDelivered)
        /\ (exit_status = << 9 >>) <=> (SomeDelivered /\ ~ AllDelivered)
        /\ exit_status[1] \in 2..5 => sends = 0

\* the read_until that has just returned was for stage st
JustRead(st) == just_read # << >> /\ just_read[1].st = st

\* C24: a send is marked delivered iff the text read for its acknowledgment
\* held the modem's message reference, "+CMGS: <n>".
C24_DeliveredIffReferenceRead ==
    JustRead("body") =>
        (outcomes[Len(outcomes)].delivered <=> just_read[1].ref)

\* C24, one direction: a send marked delivered had the reference in the text
\* read for its acknowledgment.
C24_DeliveredOnlyWithReference ==
    JustRead("body") =>
        (outcomes[Len(outcomes)].delivered => just_read[1].ref)

\* C25: the handshake writes AT at most 3 times: a read of its answer is that
\* of attempt 1, 2 or 3; an OK ends the handshake and the script goes on with
\* ATE0; a missing OK is followed by the next attempt while fewer than 3 were
\* made, and by exit status 3 after the third; a script that exited with 3
\* exited on its third unanswered AT, having written no other command, and a
\* script that has exited takes no further step.
C25_HandshakeAtMostThreeAttempts ==
    /\ [](stage = "AT" => tries \in 1..3)
    /\ [](JustRead("AT") =>
            LET r == just_read[1] IN
            /\ r.attempt \in 1..3
            /\ r.ok => (stage = "ATE0" /\ exit_status = << >> /\ "AT" \in passed)
            /\ (~ r.ok /\ r.attempt < 3) =>
                  (stage = "AT" /\ tries = r.attempt + 1 /\ exit_status = << >>)
            /\ (~ r.ok /\ r.attempt = 3) => (Exited /\ exit_status = << 3 >>))
    /\ [](exit_status = << 3 >> =>
            /\ JustRead("AT") /\ ~ just_read[1].ok /\ just_read[1].attempt = 3
            /\ passed = {} /\ pin_submits = 0 /\ sends = 0)
    /\ [][~ Exited]_vars

\* C25 witness: the third AT went unanswered and the script exited with 3
C25_Witness ==
    /\ Exited
    /\ exit_status = << 3 >>
    /\ JustRead("AT")
    /\ just_read[1].attempt = 3
    /\ opens = 1

\* C26: the PIN is asked for iff the answer read to AT+CPIN? holds "SIM PIN";
\* asked for with no PIN configured, the script exits with 4 and has written
\* no AT+CPIN="..."; with a PIN configured it writes AT+CPIN="..." exactly
\* once; a submission not answered OK is followed by exit 4, one answered OK by
\* the first of at most PinPolls polls; a poll whose answer holds READY ends
\* the stage and the script goes on with AT+CREG?, one without READY is
\* followed by the next poll while fewer than PinPolls were made and by exit 4
\* after the last; a script that exited with 4 has written no AT+CMGS.
C26_PinEnteredOnceThenPolled ==
    /\ pin_submits <= 1
    /\ pin_submits = 1 <=> (pin_asked /\ sim_pin)
    /\ (pin_asked /\ ~ sim_pin) => (Exited /\ exit_status = << 4 >> /\ sends = 0)
    /\ JustRead("CPIN?") =>
          LET r == just_read[1] IN
          /\ r.sim_pin <=> pin_asked
          /\ ~ r.sim_pin =>
                (stage = "CREG" /\ exit_status = << >> /\ "PIN" \in passed)
    /\ JustRead("CPIN=") =>
          IF just_read[1].ok
          THEN stage = "CPIN?wait" /\ tries = 1 /\ exit_status = << >>
          ELSE Exited /\ exit_status = << 4 >>
    /\ stage = "CPIN?wait" => (tries \in 1..PinPolls /\ pin_submits = 1)
    /\ JustRead("CPIN?wait") =>
          LET r == just_read[1] IN
          /\ r.attempt \in 1..PinPolls
          /\ r.ready => (stage = "CREG" /\ exit_status = << >> /\ "PIN" \in passed)
          /\ (~ r.ready /\ r.attempt < PinPolls) =>
                (stage = "CPIN?wait" /\ tries = r.attempt + 1 /\ exit_status = << >>)
          /\ (~ r.ready /\ r.attempt = PinPolls) => (Exited /\ exit_status = << 4 >>)
    /\ exit_status = << 4 >> => (sends = 0 /\ "PIN" \notin passed)

\* C26 witness: the PIN was entered and accepted, none of the PinPolls polls
\* read READY, and the script exited with 4
C26_Witness ==
    /\ Exited
    /\ exit_status = << 4 >>
    /\ pin_submits = 1
    /\ JustRead("CPIN?wait")
    /\ just_read[1].attempt = PinPolls

\* the command written after each command whose result is not looked at
AfterBestEffort(st) ==
    CASE st = "ATE0" -> "CMEE"
      [] st = "CMEE" -> "CPIN?"
      [] st = "CREG" -> "COPS"
      [] st = "COPS" -> "CMGF"
      [] st = "CSCS" -> "CSMP"
      [] st = "CSMP" -> "CMGS"

\* C27: of the configuration commands only AT+CMGF=1 is fatal.  Whatever was
\* read for ATE0, AT+CMEE, AT+CREG?, AT+COPS?, AT+CSCS or AT+CSMP (OK, ERROR or
\* nothing until the timeout), the script has not exited and has written the
\* next command; the first AT+CMGS follows AT+CSMP.  An AT+CMGF=1 not answered
\* OK is followed by exit 5 with no AT+CMGS written, and exit 5 has no other
\* cause.  A script that got past AT+CMGF=1 and exited without a serial I/O
\* error has attempted every recipient.
C27_OnlyTextModeIsFatal ==
    /\ just_read # << >> /\ just_read[1].st \in BestEffort =>
          /\ ~ Exited
          /\ exit_status = << >>
          /\ stage = AfterBestEffort(just_read[1].st)
          /\ just_read[1].st = "CSMP" => (rcpt = 1 /\ sends = 1)
    /\ JustRead("CMGF") =>
          IF just_read[1].ok
          THEN stage = "CSCS" /\ exit_status = << >> /\ "CMGF" \in passed
          ELSE Exited /\ exit_status = << 5 >> /\ sends = 0
    /\ exit_status = << 5 >> => (JustRead("CMGF") /\ ~ just_read[1].ok /\ sends = 0)
    /\ (Exited /\ ~ io_fault /\ "CMGF" \in passed) =>
          (sends = recipients /\ Len(outcomes) = recipients)

\* C27 witness: AT+CSMP was not answered OK, and the script is waiting for the
\* prompt of the first recipient's AT+CMGS
C27_Witness ==
    /\ JustRead("CSMP")
    /\ ~ just_read[1].ok
    /\ stage = "CMGS"
    /\ sends = 1
    /\ exit_status = << >>

\* the commands of the handshake and the configuration, in the order written
StageOrder ==
    << "AT", "ATE0", "CMEE", "CPIN?", "CPIN=", "CPIN?wait", "CREG", "COPS", "CMGF",
       "CSCS", "CSMP", "CMGS", "body" >>
Stages == { StageOrder[i] : i \in 1..Len(StageOrder) }
StageIndex(st) == CHOOSE i \in 1..Len(StageOrder) : StageOrder[i] = st

\* C28: the stages come in the order open device, handshake, PIN, text mode,
\* send.  A command is written only to the device opened once before; the PIN
\* stage is passed only after the handshake was answered OK, text mode only
\* after the PIN stage, and an AT+CMGS is written only after all three (AT
\* answered OK, the PIN stage completed without a fault, AT+CMGF=1 answered
\* OK); a step never goes back to an earlier command (from the sends only to
\* the next recipient's AT+CMGS); a script that exited with a status of 1..5
\* during the handshake or the configuration has written no AT+CMGS, and a
\* script that has exited takes no further step.
C28_StagesInOrder ==
    /\ [](spc = "read" => (ser_open /\ opens = 1 /\ stage \in Stages))
    /\ [](opens <= 1)
    /\ []("PIN" \in passed => "AT" \in passed)
    /\ []("CMGF" \in passed => "PIN" \in passed)
    /\ []((spc = "read" /\ StageIndex(stage) > StageIndex("AT")) => "AT" \in passed)
    /\ []((spc = "read" /\ StageIndex(stage) > StageIndex("CPIN?wait")) => "PIN" \in passed)
    /\ []((spc = "read" /\ StageIndex(stage) > StageIndex("CMGF")) => "CMGF" \in passed)
    /\ [](sends >= 1 => passed = { "AT", "PIN", "CMGF" })
    /\ []((Exited /\ passed # { "AT", "PIN", "CMGF" }) =>
            (sends = 0 /\ outcomes = << >> /\ exit_status[1] \in 1..5))
    /\ [](exit_status # << >> /\ exit_status[1] \in 2..5 => sends = 0)
    /\ [][ (spc = "read" /\ spc' = "read") =>
             \/ StageIndex(stage') >= StageIndex(stage)
             \/ stage = "body" /\ stage' = "CMGS" /\ rcpt' = rcpt + 1 ]_vars
    /\ [][ sends' # sends =>
             (sends' = sends + 1 /\ stage' = "CMGS" /\ spc' = "read"
              /\ passed' = { "AT", "PIN", "CMGF" }) ]_vars
    /\ [][ spc # "exited" ]_vars

\* C28 witness: a SIM that asked for its PIN, the PIN entered and the SIM ready,
\* text mode accepted, and the second recipient's AT+CMGS written
C28_Witness ==
    /\ spc = "read"
    /\ stage = "CMGS"
    /\ sends = 2
    /\ pin_submits = 1
    /\ passed = { "AT", "PIN", "CMGF" }

\* C29, while the batch runs: the recipients are attempted one at a time and in
\* the order of the list, each at most once (the AT+CMGS written so far are
\* those of recipients 1..rcpt, the outcomes those of the recipients before the
\* one in progress), with one delay between two recipients; a send that failed
\* is followed by the next recipient.
C29_SequentialInOrder ==
    /\ sends = rcpt
    /\ rcpt <= recipients
    /\ delays = IF rcpt = 0 THEN 0 ELSE rcpt - 1
    /\ Len(send_log) = Len(outcomes)
    /\ spc = "read" /\ stage \in { "CMGS", "body" } => Len(outcomes) = rcpt - 1
    /\ (Exited /\ ~ io_fault /\ sends >= 1) =>
          /\ Len(outcomes) = recipients
          /\ sends = recipients
          /\ delays = recipients - 1
          /\ exit_status \in { << 0 >>, << 8 >>, << 9 >> }

\* C29: once the first AT+CMGS was written, a script that has exited has
\* attempted every configured recipient exactly once.
C29_EveryRecipientAttempted ==
    (Exited /\ sends >= 1) => (sends = recipients /\ Len(outcomes) = recipients)

\* C31: a script whose serial port raised during the send to a recipient has
\* recorded that recipient as not delivered, has attempted every recipient and
\* has exited with one of the batch's codes 8 or 9 (not all were delivered).
C31_SerialFaultIsNotDelivered ==
    (Exited /\ io_fault /\ sends >= 1) =>
        /\ Len(outcomes) = recipients
        /\ ~ outcomes[rcpt].delivered
        /\ exit_status \in { << 8 >>, << 9 >> }

\* C33: the device is opened at most once, and is open exactly while the script
\* is talking to the modem; a script that has exited does not hold it open,
\* whatever its status: 0, 8 or 9 after the batch, 3, 4 or 5 from the
\* handshake, the PIN stage or text mode, 1 after a serial I/O error; every
\* such exit is that of a script that had opened the device, and a script that
\* exited with 2 (configuration error, or the device could not be opened) never
\* had it open.
C33_DeviceClosedOnEveryExit ==
    /\ opens \in 0..1
    /\ ser_open <=> spc = "read"
    /\ ser_open => opens = 1
    /\ Exited =>
          /\ ~ ser_open
          /\ exit_status[1] \in { 0, 1, 2, 3, 4, 5, 8, 9 }
          /\ exit_status # << 2 >> => opens = 1
          /\ exit_status = << 2 >> => opens = 0

\* C33 witness: a batch of two with one send delivered and one not has ended
\* with status 9 and the device, opened once, is closed
C33_Witness ==
    /\ Exited
    /\ exit_status = << 9 >>
    /\ recipients = 2
    /\ opens = 1
    /\ ~ ser_open

(***************************************************************************)
(* read_until's claim, under SpecReadUntil.                                *)
(***************************************************************************)

\* some token of the list is in txt
HasWanted(txt) == \E i \in 1..Len(want_any_of) : Contains(txt, want_any_of[i])

\* C30: read_until makes at most MaxPolls passes (the passes that begin before
\* its timeout has elapsed) and then has returned; it returns (true, txt) iff
\* txt holds one of the tokens looked for, (false, txt) when txt holds "ERROR"
\* and none of the tokens, or at the timeout; while it has not returned the
\* text accumulated holds neither a token nor "ERROR"; and in every case txt is
\* the decoding of all the bytes taken from the serial buffer since the call.
C30_ReadUntilContract ==
    /\ [](ru_polls <= MaxPolls)
    /\ [](ru_pc = "loop" =>
            /\ ru_polls < MaxPolls
            /\ ~ HasWanted(decode(ru_buf))
            /\ ~ Contains(decode(ru_buf), T_ERROR))
    /\ [](ru_pc = "returned" =>
            LET r == ru_ret[1] IN
            /\ r.txt = decode(ru_taken)
            /\ r.ok <=> HasWanted(r.txt)
            /\ (Contains(r.txt, T_ERROR) /\ ~ HasWanted(r.txt)) => ~ r.ok
            /\ (~ r.ok /\ ~ Contains(r.txt, T_ERROR)) => ru_polls = MaxPolls)
    /\ (ru_pc = "loop") ~> (ru_pc = "returned")

\* C30 witness: a call for "OK" alone has returned failure on reading "ERROR"
\* after a pass that read other bytes, with bytes left unread on the wire
C30_Witness ==
    /\ ru_pc = "returned"
    /\ want_any_of = << T_OK >>
    /\ ~ ru_ret[1].ok
    /\ ru_ret[1].txt = << "x" >> \o T_ERROR
    /\ ru_polls = 2

====
